---- MODULE Spec2Model ----
(***************************************************************************)
(* desktopSynth: the audio core (envelope, the three synthesis engines,    *)
(* Voice, VoicePool, AudioEngine) as state machines.                       *)
(*                                                                         *)
(* Number conventions.  Python floats that are only stored and compared    *)
(* (parameter values, times in seconds, sustain levels) are integers in    *)
(* thousandths: the value 0.005 is 5, 1.0 is 1000.  Numbers the code       *)
(* computes with (the envelope level, the release start level) are exact   *)
(* rationals <<n, d>> in lowest terms; float rounding is not modelled.     *)
(* Parameter names are sequences of one-character strings, so that the     *)
(* parsing FMEngine.set_param does is computed and not assumed.            *)
(* Audio samples (oscillator phases, filter integrators, the rendered      *)
(* block) are left out: no state modelled here depends on them.            *)
(***************************************************************************)
EXTENDS Integers, Sequences, FiniteSets, TLC

VARIABLES
    voices,        \* VoicePool.voices: sequence of N_VOICES Voice records (1-based)
    next_voice,    \* VoicePool._next_voice, the round-robin steal cursor
    queue,         \* AudioEngine._event_queue, FIFO of event records
    running,       \* AudioEngine._running
    stream,        \* AudioEngine._stream: "none" | "active" | "aborted"
    cb,            \* the render callback's position: "idle" | "drain"
    enq,           \* history: every event put on the queue, in put order
    applied,       \* history: every event whose pool call returned normally
    last_cb,       \* history: how the last callback ended: "none" | "rendered" | "raised"
    last,          \* history: the last pool or engine call and how it ended
    steals,        \* history: the voices _allocate stole, oldest first (last N_VOICES)
    autos,         \* history: the voices given to auto-allocated note_ons
    only_auto,     \* history: every pool call so far was an auto note_on or a render
    holding,       \* history: the voices given a note_on by a pool call and no note_off since
    calls,         \* history: number of direct pool or engine calls made so far
    eng,           \* one engine instance (engine-level specification)
    env,           \* one ADSREnvelope instance (envelope-level specification)
    elog,          \* history of env: the ticks it spent in each state since its note_on
    clock,         \* the Clock object's fields
    loops,         \* the threads start() created, by creation order: each one's place in _run
    main,          \* the thread calling the Clock's methods: "idle", or "join" inside stop()
    clog,          \* history of the clock: callbacks invoked, step durations, stop/start
    slog,          \* history of the stream: its start()/stop() calls and the streams open
    lk,            \* VoicePool._lock and the threads calling pool methods under it
    llog,          \* history of the locked pool calls
    svf,           \* one SVFilter instance (filter-level specification)
    flog,          \* history of svf: the effective cutoff of its last render, calls made
    conv,          \* one call of _time_to_samples: its argument and its result
    dl,            \* one run of the Clock's timing loop with its deadlines and the time
    fmr,           \* one FMEngine.render_block call, sample by sample
    app            \* the App: its pattern, its _ui_queue, the main loop and the transport

\* The state of the audio core, and the state of the parts modelled apart.
core == <<voices, next_voice, queue, running, stream, cb, enq, applied, last_cb,
          last, steals, autos, only_auto, holding, calls, eng>>
envVars == <<env, elog>>
clockVars == <<clock, loops, main, clog>>
lockVars == <<lk, llog>>
partVars == <<svf, flog, conv, dl, fmr, app>>

vars == <<core, envVars, clockVars, slog, lockVars, partVars>>

\* What the audio core's steps leave alone.
aux == <<envVars, clockVars, slog, lockVars, partVars>>

\* The histories the direct pool calls keep.
poolHist == <<steals, autos, only_auto, holding, calls>>

-----------------------------------------------------------------------------
(* Bounds of the model *)

\* Samples per second.  The source fixes 44100 (audio/envelope.py:15); the
\* model runs at a few samples per second so that an envelope segment lasts
\* a handful of ticks instead of thousands.
SAMPLE_RATE == 4

\* Largest n_frames a render call is given (the source's stream asks for 256).
MaxFrames == 2

\* Most events ever put on the queue in one behaviour.
MaxEvents == 3

\* Longest history of auto allocations kept.
MaxLog == 5

\* Most direct pool calls made in one behaviour of SpecPool / of SpecSteal.
MaxCalls == 5
MaxStealCalls == 10

\* Most calls made on the single engine in one behaviour of SpecParam.
MaxEngineCalls == 5

\* Most note_on / note_off calls made on the single envelope in one behaviour
\* of SpecEnv, and most ticks it is held in Sustain while its ticks are counted.
MaxEnvCalls == 3
MaxHold == 2

\* Most calls made on the Clock from outside, and most turns of its loop
\* (summed over its threads), in one behaviour of SpecClock.
MaxClockCalls == 4
MaxTicks == 4

-----------------------------------------------------------------------------
(* Program constants *)

N_VOICES == 4
N_OPS == 4
N_ALGORITHMS == 6

\* Python's Optional[int]: None, or Some(k) for the int k (k is opt[1]).
None == <<>>
Some(k) == <<k>>

-----------------------------------------------------------------------------
(* Python arithmetic *)

Max(a, b) == IF a >= b THEN a ELSE b

\* int(x) of the float num/den (den > 0): truncation toward zero.
PyInt(num, den) == IF num >= 0 THEN num \div den ELSE -((-num) \div den)

\* list[k] on a list of length n: the 0-based position, or -1 for IndexError.
PyIndex(k, n) == IF 0 <= k /\ k < n THEN k
                 ELSE IF -n <= k /\ k < 0 THEN k + n
                 ELSE -1

RECURSIVE GCD(_, _)
GCD(a, b) == IF b = 0 THEN a ELSE GCD(b, a % b)

\* The rational num/den (den # 0) in lowest terms with a positive denominator.
Rat(num, den) ==
    LET s == IF den < 0 THEN -1 ELSE 1
        n == s * num
        d == s * den
        g == GCD(IF n < 0 THEN -n ELSE n, d)
    IN  <<n \div g, d \div g>>

RAdd(a, b) == Rat(a[1] * b[2] + b[1] * a[2], a[2] * b[2])
RSub(a, b) == Rat(a[1] * b[2] - b[1] * a[2], a[2] * b[2])
RDiv(a, k) == Rat(a[1], a[2] * k)
RMul(a, b) == Rat(a[1] * b[1], a[2] * b[2])
RLeq(a, b) == a[1] * b[2] <= b[1] * a[2]
R0 == Rat(0, 1)
R1 == Rat(1, 1)
\* A stored value in thousandths as a rational.
Milli(v) == Rat(v, 1000)

-----------------------------------------------------------------------------
(* audio/envelope.py *)

\* seconds is in thousandths of a second.
time_to_samples(seconds) == Max(1, PyInt(seconds * SAMPLE_RATE, 1000))

ADSREnvelope(attack, decay, sustain, release) ==
    [attack |-> attack, decay |-> decay, sustain |-> sustain, release |-> release,
     state |-> "IDLE", level |-> R0, release_level |-> R0]

\* A note_on that restarts from level 0: C12 must tell it from the code's.
ADSR_note_on_from_zero(e) ==
    [e EXCEPT !.state = "ATTACK", !.level = R0, !.release_level = e.level]

ADSR_note_on(e) == [e EXCEPT !.state = "ATTACK", !.release_level = e.level]

\* A note_off without the test of the state: it starts a Release in Idle too.
ADSR_note_off_from_idle(e) == [e EXCEPT !.release_level = e.level, !.state = "RELEASE"]

ADSR_note_off(e) ==
    IF e.state # "IDLE"
    THEN [e EXCEPT !.release_level = e.level, !.state = "RELEASE"]
    ELSE e

ADSR_is_active(e) == e.state # "IDLE"

\* A tick whose Attack ends only once the level has passed 1, one tick late:
\* C13 must tell it from the code's.
ADSR_tick_late_attack(e) ==
    CASE e.state = "IDLE" -> e
      [] e.state = "ATTACK" ->
            LET lvl == RAdd(e.level, Rat(1, time_to_samples(e.attack)))
            IN  IF RLeq(R1, lvl) /\ lvl # R1
                THEN [e EXCEPT !.level = R1, !.state = "DECAY"]
                ELSE [e EXCEPT !.level = lvl]
      [] e.state = "DECAY" ->
            LET dec_rate == RDiv(RSub(R1, Milli(e.sustain)), time_to_samples(e.decay))
                lvl == RSub(e.level, dec_rate)
            IN  IF RLeq(lvl, Milli(e.sustain))
                THEN [e EXCEPT !.level = Milli(e.sustain), !.state = "SUSTAIN"]
                ELSE [e EXCEPT !.level = lvl]
      [] e.state = "SUSTAIN" -> [e EXCEPT !.level = Milli(e.sustain)]
      [] e.state = "RELEASE" ->
            LET rel_rate == RDiv(e.release_level, time_to_samples(e.release))
                lvl == RSub(e.level, rel_rate)
            IN  IF RLeq(lvl, R0)
                THEN [e EXCEPT !.level = R0, !.state = "IDLE"]
                ELSE [e EXCEPT !.level = lvl]

ADSR_tick(e) ==
    CASE e.state = "IDLE" -> e
      [] e.state = "ATTACK" ->
            LET lvl == RAdd(e.level, Rat(1, time_to_samples(e.attack)))
            IN  IF RLeq(R1, lvl)
                THEN [e EXCEPT !.level = R1, !.state = "DECAY"]
                ELSE [e EXCEPT !.level = lvl]
      [] e.state = "DECAY" ->
            LET dec_rate == RDiv(RSub(R1, Milli(e.sustain)), time_to_samples(e.decay))
                lvl == RSub(e.level, dec_rate)
            IN  IF RLeq(lvl, Milli(e.sustain))
                THEN [e EXCEPT !.level = Milli(e.sustain), !.state = "SUSTAIN"]
                ELSE [e EXCEPT !.level = lvl]
      [] e.state = "SUSTAIN" -> [e EXCEPT !.level = Milli(e.sustain)]
      [] e.state = "RELEASE" ->
            LET rel_rate == RDiv(e.release_level, time_to_samples(e.release))
                lvl == RSub(e.level, rel_rate)
            IN  IF RLeq(lvl, R0)
                THEN [e EXCEPT !.level = R0, !.state = "IDLE"]
                ELSE [e EXCEPT !.level = lvl]

RECURSIVE ADSR_render_block(_, _)
ADSR_render_block(e, n_frames) ==
    IF n_frames = 0 THEN e ELSE ADSR_render_block(ADSR_tick(e), n_frames - 1)

-----------------------------------------------------------------------------
(* Results of calls that can raise, and parameter-name text *)

\* A call that returned normally with state v / that raised err leaving v.
Ok(v) == [ok |-> TRUE, val |-> v, err |-> "none"]
Raised(v, err) == [ok |-> FALSE, val |-> v, err |-> err]

\* name.startswith(prefix)
StartsWith(name, prefix) ==
    Len(name) >= Len(prefix) /\ SubSeq(name, 1, Len(prefix)) = prefix

\* Position of the first "_" of name, 0 when there is none: where
\* name.split("_", 1) cuts.
FirstUnderscore(name) ==
    LET S == {i \in 1..Len(name) : name[i] = "_"}
    IN  IF S = {} THEN 0 ELSE CHOOSE i \in S : \A j \in S : i <= j

DigitChars == <<"0", "1", "2", "3", "4", "5", "6", "7", "8", "9">>

RECURSIVE DigitsValue(_)
DigitsValue(s) ==
    IF s = <<>> THEN 0
    ELSE DigitsValue(SubSeq(s, 1, Len(s) - 1)) * 10
         + ((CHOOSE i \in 1..10 : DigitChars[i] = s[Len(s)]) - 1)

\* Python int(s) for a str s of ASCII characters: an optional sign and at least
\* one digit, anything else is a ValueError (ok = FALSE).  Surrounding
\* whitespace and digit-group underscores, which int() also accepts, do not
\* occur in the names the model uses.
PyParseInt(s) ==
    LET signed == s # <<>> /\ s[1] \in {"+", "-"}
        body == IF signed THEN Tail(s) ELSE s
    IN  IF body # <<>> /\ \A i \in 1..Len(body) : \E k \in 1..10 : DigitChars[k] = body[i]
        THEN [ok |-> TRUE, val |-> (IF signed /\ s[1] = "-" THEN -1 ELSE 1) * DigitsValue(body)]
        ELSE [ok |-> FALSE, val |-> 0]

-----------------------------------------------------------------------------
(* audio/engines/fm.py *)

FMOperator(ratio) ==
    [ratio |-> ratio, level |-> 700, feedback |-> 0,
     env |-> ADSREnvelope(5, 200, 500, 400)]

\* note_freq holds the MIDI note n that stands for midi_to_hz(n) (440 Hz is
\* note 69); velocity holds the v of _velocity_scale = v / 127.
FMEngine ==
    [kind |-> "fm",
     ops |-> <<FMOperator(1000), FMOperator(2000), FMOperator(3000), FMOperator(1000)>>,
     algorithm |-> 0, note_freq |-> 69, velocity |-> 127]

\* The routing as the module's docstring draws it for algorithm 0
\* (3 -> 2 -> 1 -> 0): each operator fed by the next higher one.
ALGORITHMS_docstring ==
    LET Op(mod_sources, is_carrier) == [mod_sources |-> mod_sources, is_carrier |-> is_carrier]
        series == <<Op(<<1>>, TRUE), Op(<<2>>, FALSE), Op(<<3>>, FALSE), Op(<<>>, FALSE)>>
    IN  [a \in 1..6 |-> series]

\* ALGORITHMS[a + 1][op_idx + 1] is the entry (mod_sources, is_carrier) of
\* operator op_idx in algorithm a; the sources are operator indices from 0.
ALGORITHMS ==
    LET Op(mod_sources, is_carrier) == [mod_sources |-> mod_sources, is_carrier |-> is_carrier]
    IN  << <<Op(<<>>, FALSE), Op(<<0>>, FALSE), Op(<<1>>, FALSE), Op(<<2>>, TRUE)>>,
           <<Op(<<>>, FALSE), Op(<<0>>, FALSE), Op(<<1>>, TRUE), Op(<<0>>, TRUE)>>,
           <<Op(<<>>, FALSE), Op(<<0>>, TRUE), Op(<<0>>, TRUE), Op(<<>>, TRUE)>>,
           <<Op(<<>>, TRUE), Op(<<>>, TRUE), Op(<<0, 1>>, FALSE), Op(<<2>>, FALSE)>>,
           <<Op(<<>>, FALSE), Op(<<0>>, TRUE), Op(<<0>>, TRUE), Op(<<>>, TRUE)>>,
           <<Op(<<>>, TRUE), Op(<<>>, TRUE), Op(<<>>, TRUE), Op(<<>>, TRUE)>> >>

\* The module docstring's diagrams (notation mod -> carrier), algorithm by
\* algorithm: the edges <<mod, carrier>> drawn and the operators that sound.
DIAGRAMS ==
    << [edges |-> {<<3, 2>>, <<2, 1>>, <<1, 0>>}, carriers |-> {0}],
       [edges |-> {<<2, 0>>, <<3, 1>>, <<1, 0>>}, carriers |-> {0}],
       [edges |-> {<<1, 0>>, <<2, 0>>, <<3, 0>>}, carriers |-> {0}],
       [edges |-> {<<3, 2>>, <<2, 0>>, <<2, 1>>}, carriers |-> {0, 1}],
       [edges |-> {<<1, 0>>, <<2, 0>>}, carriers |-> {0, 3}],
       [edges |-> {}, carriers |-> {0, 1, 2, 3}] >>

\* The edges <<src, op_idx>> and the carriers of algorithm a in the table.
FM_edges(a) ==
    {<<ALGORITHMS[a + 1][op].mod_sources[k], op - 1>> :
        <<op, k>> \in {ok \in (1..N_OPS) \X (1..N_OPS) :
                          ok[2] <= Len(ALGORITHMS[a + 1][ok[1]].mod_sources)}}

FM_carriers(a) == {op - 1 : op \in {o \in 1..N_OPS : ALGORITHMS[a + 1][o].is_carrier}}

\* FMOperator.render_sample.  A sample is level * env_val * sin(...): the sine
\* is not computed, a sample is kept as its amplitude level * env_val, 0 for a
\* sample that is 0 whatever the phase.  total_mod is kept as its two terms:
\* mod_input, the outputs read, and self, feedback * _last_out.
FMOperator_render_sample(op, last_out, mod_input, env_val) ==
    [total_mod |-> [mod_input |-> mod_input, self |-> RMul(Milli(op.feedback), last_out)],
     sample |-> RMul(Milli(op.level), env_val)]

FM_is_active(e) == \E i \in 1..N_OPS : ADSR_is_active(e.ops[i].env)

FM_note_on(e, note, velocity) ==
    [e EXCEPT !.note_freq = note, !.velocity = velocity,
              !.ops = [i \in 1..N_OPS |-> [e.ops[i] EXCEPT !.env = ADSR_note_on(@)]]]

FM_note_off(e) ==
    [e EXCEPT !.ops = [i \in 1..N_OPS |-> [e.ops[i] EXCEPT !.env = ADSR_note_off(@)]]]

FM_render_block(e, n_frames) ==
    [e EXCEPT !.ops = [i \in 1..N_OPS |->
                         [e.ops[i] EXCEPT !.env = ADSR_render_block(@, n_frames)]]]

\* The assignment chain at the end of FMEngine.set_param, on one operator.
FM_set_op_attr(op, attr, value) ==
    CASE attr = <<"r","a","t","i","o">> -> [op EXCEPT !.ratio = Max(10, value)]
      [] attr = <<"l","e","v","e","l">> -> [op EXCEPT !.level = value]
      [] attr = <<"f","e","e","d","b","a","c","k">> -> [op EXCEPT !.feedback = value]
      [] attr = <<"a","t","t","a","c","k">> -> [op EXCEPT !.env.attack = Max(1, value)]
      [] attr = <<"d","e","c","a","y">> -> [op EXCEPT !.env.decay = Max(1, value)]
      [] attr = <<"s","u","s","t","a","i","n">> -> [op EXCEPT !.env.sustain = value]
      [] attr = <<"r","e","l","e","a","s","e">> -> [op EXCEPT !.env.release = Max(1, value)]
      [] OTHER -> op

FM_set_param(e, name, value) ==
    IF name = <<"a","l","g","o","r","i","t","h","m">>
    THEN Ok([e EXCEPT !.algorithm = PyInt(value, 1000) % N_ALGORITHMS])
    ELSE LET cut == FirstUnderscore(name)
             part0 == SubSeq(name, 1, cut - 1)
             attr == SubSeq(name, cut + 1, Len(name))
         IN  IF cut = 0 \/ ~StartsWith(part0, <<"o", "p">>)
             THEN Ok(e)
             ELSE LET n == PyParseInt(SubSeq(part0, 3, Len(part0)))
                      op_idx == PyIndex(n.val, N_OPS)
                  IN  IF ~n.ok THEN Ok(e)
                      ELSE IF op_idx = -1 THEN Raised(e, "IndexError")
                      ELSE Ok([e EXCEPT !.ops[op_idx + 1] = FM_set_op_attr(@, attr, value)])

-----------------------------------------------------------------------------
(* audio/filter.py, audio/oscillator.py *)

WAVE_NAMES == <<"sine", "saw", "square", "triangle">>
FILTER_MODES == <<"lp", "hp", "bp">>

\* cutoff is a rational number of Hz, resonance is in thousandths.
SVFilter(cutoff, resonance, mode) ==
    [cutoff |-> Milli(cutoff), resonance |-> resonance, mode |-> mode]

\* The sample rate of audio/filter.py.  The cutoff limits are in Hz, so the
\* filter keeps the source's rate.
FILTER_SAMPLE_RATE == 44100

\* fc = min(max(self.cutoff, 20.0), SAMPLE_RATE * 0.49)
SVFilter_fc(f) ==
    LET lo == Rat(20, 1)
        hi == Rat(FILTER_SAMPLE_RATE * 49, 100)
        raised == IF RLeq(f.cutoff, lo) THEN lo ELSE f.cutoff
    IN  IF RLeq(raised, hi) THEN raised ELSE hi

\* A render_block that stores the limited cutoff in the filter.
SVFilter_render_block_writes_back(f) ==
    [self |-> [f EXCEPT !.cutoff = SVFilter_fc(f)], fc |-> SVFilter_fc(f)]

\* render_block: the filter as it is left (the integrators _low and _band
\* are not modelled) and the fc the block was filtered with.
SVFilter_render_block(f) == [self |-> f, fc |-> SVFilter_fc(f)]

-----------------------------------------------------------------------------
(* audio/engines/vector.py *)

VectorEngine ==
    [kind |-> "vector",
     oscs |-> <<"sine", "saw", "square", "triangle">>,
     xy |-> <<500, 500>>, lfo_rate |-> 500, lfo_depth |-> 0,
     filt |-> SVFilter(4000000, 200, "lp"),
     env |-> ADSREnvelope(10, 200, 600, 500),
     note_freq |-> 69, velocity |-> 127]

Vector_is_active(e) == ADSR_is_active(e.env)

Vector_note_on(e, note, velocity) ==
    [e EXCEPT !.note_freq = note, !.velocity = velocity, !.env = ADSR_note_on(@)]

Vector_note_off(e) == [e EXCEPT !.env = ADSR_note_off(@)]

Vector_render_block(e, n_frames) ==
    [e EXCEPT !.env = ADSR_render_block(@, n_frames)]

Vector_set_param(e, name, value) ==
    IF StartsWith(name, <<"o","s","c","_">>)
    THEN LET idx == CASE name = <<"o","s","c","_","a">> -> 0 [] name = <<"o","s","c","_","b">> -> 1
                      [] name = <<"o","s","c","_","c">> -> 2 [] name = <<"o","s","c","_","d">> -> 3
                      [] OTHER -> -1
         IN  IF idx # -1
             THEN Ok([e EXCEPT !.oscs[idx + 1] =
                         WAVE_NAMES[(PyInt(value, 1000) % Len(WAVE_NAMES)) + 1]])
             ELSE Ok(e)
    ELSE Ok(CASE name = <<"x","y","_","x">> -> [e EXCEPT !.xy[1] = value]
              [] name = <<"x","y","_","y">> -> [e EXCEPT !.xy[2] = value]
              [] name = <<"l","f","o","_","r","a","t","e">> -> [e EXCEPT !.lfo_rate = Max(10, value)]
              [] name = <<"l","f","o","_","d","e","p","t","h">> -> [e EXCEPT !.lfo_depth = value]
              [] name = <<"f","i","l","t","e","r","_","c","u","t","o","f","f">> -> [e EXCEPT !.filt.cutoff = Milli(value)]
              [] name = <<"f","i","l","t","e","r","_","r","e","s">> -> [e EXCEPT !.filt.resonance = value]
              [] name = <<"f","i","l","t","e","r","_","m","o","d","e">> ->
                    [e EXCEPT !.filt.mode = FILTER_MODES[(PyInt(value, 1000) % 3) + 1]]
              [] name = <<"a","t","t","a","c","k">> -> [e EXCEPT !.env.attack = Max(1, value)]
              [] name = <<"d","e","c","a","y">> -> [e EXCEPT !.env.decay = Max(1, value)]
              [] name = <<"s","u","s","t","a","i","n">> -> [e EXCEPT !.env.sustain = value]
              [] name = <<"r","e","l","e","a","s","e">> -> [e EXCEPT !.env.release = Max(1, value)]
              [] OTHER -> e)

-----------------------------------------------------------------------------
(* audio/engines/subtractive.py *)

ARP_MODES == <<"off", "up", "down", "random", "chord">>

SubtractiveEngine ==
    [kind |-> "subtractive",
     osc1 |-> "saw", osc2 |-> "square", osc_mix |-> 500, detune |-> 0, octave |-> 0,
     filt |-> SVFilter(2000000, 300, "lp"),
     filter_env_amt |-> 500, filter_base_cutoff |-> 2000000,
     amp_env |-> ADSREnvelope(5, 150, 700, 300),
     filt_env |-> ADSREnvelope(5, 250, 300, 300),
     arp_mode |-> "off", arp_octaves |-> 1, arp_notes |-> <<>>, arp_index |-> 0,
     note_freq |-> 69, velocity |-> 127, held_notes |-> <<>>]

Sub_is_active(e) == ADSR_is_active(e.amp_env)

Sub_trigger_note(e, note) ==
    [e EXCEPT !.note_freq = note + e.octave * 12,
              !.amp_env = ADSR_note_on(@), !.filt_env = ADSR_note_on(@)]

\* sorted(notes) for a list without duplicates.
RECURSIVE Sorted(_)
Sorted(notes) ==
    IF notes = <<>> THEN <<>>
    ELSE LET lo == CHOOSE i \in 1..Len(notes) : \A j \in 1..Len(notes) : notes[i] <= notes[j]
         IN  <<notes[lo]>> \o Sorted(SubSeq(notes, 1, lo - 1) \o SubSeq(notes, lo + 1, Len(notes)))

\* The layers without their transposition.
RECURSIVE Sub_arp_layers_untransposed(_, _, _)
Sub_arp_layers_untransposed(base, oct_shift, arp_octaves) ==
    IF oct_shift >= arp_octaves THEN <<>>
    ELSE base \o Sub_arp_layers_untransposed(base, oct_shift + 1, arp_octaves)

\* The list notes has before any reordering: the sorted held notes, once per
\* octave layer.
RECURSIVE Sub_arp_layers(_, _, _)
Sub_arp_layers(base, oct_shift, arp_octaves) ==
    IF oct_shift >= arp_octaves THEN <<>>
    ELSE [i \in 1..Len(base) |-> base[i] + oct_shift * 12]
         \o Sub_arp_layers(base, oct_shift + 1, arp_octaves)

\* The orders random.shuffle can leave a list of length n in.
Shuffles(n) == {f \in [1..n -> 1..n] : \A i, j \in 1..n : f[i] = f[j] => i = j}

\* shuffle is the order random.shuffle produces, used in "random" mode only.
Sub_rebuild_arp_sequence(e, shuffle) ==
    IF e.held_notes = <<>> THEN [e EXCEPT !.arp_notes = <<>>]
    ELSE LET notes == Sub_arp_layers(Sorted(e.held_notes), 0, e.arp_octaves)
             n == Len(notes)
             ordered == CASE e.arp_mode = "up" -> notes
                          [] e.arp_mode = "down" -> [i \in 1..n |-> notes[n + 1 - i]]
                          [] e.arp_mode = "random" -> [i \in 1..n |-> notes[shuffle[i]]]
                          [] e.arp_mode = "chord" -> notes
                          [] OTHER -> e.arp_notes
         IN  [e EXCEPT !.arp_notes = ordered, !.arp_index = 0]

\* note_on without the test `note not in self._held_notes`.
Sub_note_on_always_appends(e, note, velocity, shuffle) ==
    LET e1 == [e EXCEPT !.velocity = velocity, !.held_notes = Append(e.held_notes, note)]
    IN  IF e1.arp_mode = "off" THEN Sub_trigger_note(e1, note)
        ELSE Sub_rebuild_arp_sequence(e1, shuffle)

Sub_note_on(e, note, velocity, shuffle) ==
    LET held == IF \E i \in 1..Len(e.held_notes) : e.held_notes[i] = note
                THEN e.held_notes ELSE Append(e.held_notes, note)
        e1 == [e EXCEPT !.velocity = velocity, !.held_notes = held]
    IN  IF e1.arp_mode = "off" THEN Sub_trigger_note(e1, note)
        ELSE Sub_rebuild_arp_sequence(e1, shuffle)

Sub_note_off(e) ==
    [e EXCEPT !.held_notes = <<>>,
              !.amp_env = ADSR_note_off(@), !.filt_env = ADSR_note_off(@)]

\* arp_tick with a cursor that runs on past the last entry.
Sub_arp_tick_no_wrap(e) ==
    IF e.arp_mode = "off" \/ e.arp_notes = <<>> THEN e
    ELSE LET note == e.arp_notes[(e.arp_index % Len(e.arp_notes)) + 1]
         IN  Sub_trigger_note([e EXCEPT !.arp_index = e.arp_index + 1], note)

Sub_arp_tick(e) ==
    IF e.arp_mode = "off" \/ e.arp_notes = <<>> THEN e
    ELSE LET note == e.arp_notes[(e.arp_index % Len(e.arp_notes)) + 1]
         IN  Sub_trigger_note(
                 [e EXCEPT !.arp_index = (e.arp_index + 1) % Len(e.arp_notes)], note)

\* The envelopes advance n_frames ticks; the filter is left with the cutoff
\* computed for the block's last sample, n_frames >= 1.
Sub_render_block(e, n_frames) ==
    LET fe == ADSR_render_block(e.filt_env, n_frames)
        mod3 == Rat(fe.level[1] * e.filter_env_amt * 3, fe.level[2] * 1000)
        cutoff == Rat(e.filter_base_cutoff * (mod3[2] + mod3[1]), 1000 * mod3[2])
    IN  [e EXCEPT !.filt_env = fe,
                  !.amp_env = ADSR_render_block(@, n_frames),
                  !.filt.cutoff = cutoff]

Sub_set_param(e, name, value) ==
    Ok(CASE name = <<"o","s","c","1","_","w","a","v","e">> ->
              [e EXCEPT !.osc1 = WAVE_NAMES[(PyInt(value, 1000) % Len(WAVE_NAMES)) + 1]]
         [] name = <<"o","s","c","2","_","w","a","v","e">> ->
              [e EXCEPT !.osc2 = WAVE_NAMES[(PyInt(value, 1000) % Len(WAVE_NAMES)) + 1]]
         [] name = <<"o","s","c","_","m","i","x">> -> [e EXCEPT !.osc_mix = value]
         [] name = <<"d","e","t","u","n","e">> -> [e EXCEPT !.detune = value]
         [] name = <<"o","c","t","a","v","e">> -> [e EXCEPT !.octave = PyInt(value, 1000)]
         [] name = <<"f","i","l","t","e","r","_","c","u","t","o","f","f">> ->
              [e EXCEPT !.filter_base_cutoff = value, !.filt.cutoff = Milli(value)]
         [] name = <<"f","i","l","t","e","r","_","r","e","s">> -> [e EXCEPT !.filt.resonance = value]
         [] name = <<"f","i","l","t","e","r","_","m","o","d","e">> ->
              [e EXCEPT !.filt.mode = FILTER_MODES[(PyInt(value, 1000) % 3) + 1]]
         [] name = <<"f","i","l","t","e","r","_","e","n","v","_","a","m","t">> -> [e EXCEPT !.filter_env_amt = value]
         [] name = <<"a","m","p","_","a","t","t","a","c","k">> -> [e EXCEPT !.amp_env.attack = Max(1, value)]
         [] name = <<"a","m","p","_","d","e","c","a","y">> -> [e EXCEPT !.amp_env.decay = Max(1, value)]
         [] name = <<"a","m","p","_","s","u","s","t","a","i","n">> -> [e EXCEPT !.amp_env.sustain = value]
         [] name = <<"a","m","p","_","r","e","l","e","a","s","e">> -> [e EXCEPT !.amp_env.release = Max(1, value)]
         [] name = <<"f","i","l","t","_","a","t","t","a","c","k">> -> [e EXCEPT !.filt_env.attack = Max(1, value)]
         [] name = <<"f","i","l","t","_","d","e","c","a","y">> -> [e EXCEPT !.filt_env.decay = Max(1, value)]
         [] name = <<"f","i","l","t","_","s","u","s","t","a","i","n">> -> [e EXCEPT !.filt_env.sustain = value]
         [] name = <<"f","i","l","t","_","r","e","l","e","a","s","e">> -> [e EXCEPT !.filt_env.release = Max(1, value)]
         [] name = <<"a","r","p","_","m","o","d","e">> ->
              [e EXCEPT !.arp_mode = ARP_MODES[(PyInt(value, 1000) % Len(ARP_MODES)) + 1]]
         [] name = <<"a","r","p","_","o","c","t","a","v","e","s">> -> [e EXCEPT !.arp_octaves = Max(1, PyInt(value, 1000))]
         [] OTHER -> e)

-----------------------------------------------------------------------------
(* audio/engines/__init__.py and the SynthEngine interface *)

make_engine(name) ==
    CASE name = "fm" -> FMEngine
      [] name = "vector" -> VectorEngine
      [] name = "subtractive" -> SubtractiveEngine
      [] OTHER -> FMEngine

Engine_is_active(e) ==
    CASE e.kind = "fm" -> FM_is_active(e)
      [] e.kind = "vector" -> Vector_is_active(e)
      [] e.kind = "subtractive" -> Sub_is_active(e)

Engine_note_on(e, note, velocity, shuffle) ==
    CASE e.kind = "fm" -> FM_note_on(e, note, velocity)
      [] e.kind = "vector" -> Vector_note_on(e, note, velocity)
      [] e.kind = "subtractive" -> Sub_note_on(e, note, velocity, shuffle)

Engine_note_off(e) ==
    CASE e.kind = "fm" -> FM_note_off(e)
      [] e.kind = "vector" -> Vector_note_off(e)
      [] e.kind = "subtractive" -> Sub_note_off(e)

Engine_render_block(e, n_frames) ==
    CASE e.kind = "fm" -> FM_render_block(e, n_frames)
      [] e.kind = "vector" -> Vector_render_block(e, n_frames)
      [] e.kind = "subtractive" -> Sub_render_block(e, n_frames)

Engine_set_param(e, name, value) ==
    CASE e.kind = "fm" -> FM_set_param(e, name, value)
      [] e.kind = "vector" -> Vector_set_param(e, name, value)
      [] e.kind = "subtractive" -> Sub_set_param(e, name, value)

\* The orders random.shuffle may produce when engine e is given note_on(note):
\* only a subtractive engine in "random" mode shuffles.
Engine_shuffles(e, note) ==
    IF e.kind = "subtractive" /\ e.arp_mode = "random"
    THEN Shuffles(Len(Sub_note_on([e EXCEPT !.arp_mode = "up"], note, 0, <<>>).held_notes)
                  * e.arp_octaves)
    ELSE {<<>>}

-----------------------------------------------------------------------------
(* audio/voice.py *)

Voice(engine_name) ==
    [engine |-> make_engine(engine_name), current_note |-> None, active |-> FALSE,
     velocity |-> 100, engine_name |-> engine_name]

\* A change_engine that installs the new engine but forgets to clear the note
\* and the active flag: C10 must tell it from the code's.
Voice_change_engine_keeps_note(v, engine_name) ==
    IF engine_name # v.engine_name
    THEN [v EXCEPT !.engine_name = engine_name, !.engine = make_engine(engine_name)]
    ELSE v

Voice_change_engine(v, engine_name) ==
    IF engine_name # v.engine_name
    THEN [v EXCEPT !.engine_name = engine_name, !.engine = make_engine(engine_name),
                   !.current_note = None, !.active = FALSE]
    ELSE v

Voice_note_on(v, note, velocity, shuffle) ==
    [v EXCEPT !.current_note = Some(note), !.velocity = velocity, !.active = TRUE,
              !.engine = Engine_note_on(@, note, velocity, shuffle)]

Voice_note_off(v) == [v EXCEPT !.engine = Engine_note_off(@)]

Voice_render(v, n_frames) ==
    IF ~Engine_is_active(v.engine)
    THEN [v EXCEPT !.active = FALSE]
    ELSE [v EXCEPT !.engine = Engine_render_block(@, n_frames)]

Voice_is_free(v) == ~v.active /\ ~Engine_is_active(v.engine)

-----------------------------------------------------------------------------
(* audio/voice_pool.py.  A pool is [voices, next_voice]; voices is 1-based,  *)
(* so the code's voices[k] is voices[k + 1] here.  Every method runs under   *)
(* self._lock from start to end and is one step.                             *)

VoicePool ==
    [voices |-> <<Voice("fm"), Voice("vector"), Voice("subtractive"), Voice("fm")>>,
     next_voice |-> 0]

\* voices[None] is a TypeError, voices[k] outside -4..3 an IndexError.
Pool_set_track_engine(pool, track_idx, engine_name) ==
    LET k == IF track_idx = None THEN -1 ELSE PyIndex(track_idx[1], N_VOICES)
    IN  IF track_idx = None THEN Raised(pool, "TypeError")
        ELSE IF k = -1 THEN Raised(pool, "IndexError")
        ELSE Ok([pool EXCEPT !.voices[k + 1] = Voice_change_engine(@, engine_name)])

Pool_set_track_param(pool, track_idx, param, value) ==
    LET k == IF track_idx = None THEN -1 ELSE PyIndex(track_idx[1], N_VOICES)
    IN  IF track_idx = None THEN Raised(pool, "TypeError")
        ELSE IF k = -1 THEN Raised(pool, "IndexError")
        ELSE LET r == Engine_set_param(pool.voices[k + 1].engine, param, value)
             IN  IF r.ok THEN Ok([pool EXCEPT !.voices[k + 1].engine = r.val])
                 ELSE Raised(pool, r.err)

\* _allocate: the 0-based index of the voice returned, the cursor afterwards,
\* and whether the voice was stolen.
\* Three _allocate variants the allocation properties must tell from the
\* code's: one moves the cursor on every allocation (C5), one steals the voice
\* after the cursor (C6), one never moves the cursor (C7).
Pool_allocate_cursor_always(pool) ==
    LET free == {k \in 0..N_VOICES - 1 : Voice_is_free(pool.voices[k + 1])}
    IN  IF free # {}
        THEN [voice |-> CHOOSE k \in free : \A j \in free : k <= j,
              next_voice |-> (pool.next_voice + 1) % N_VOICES, stolen |-> FALSE]
        ELSE [voice |-> pool.next_voice % N_VOICES,
              next_voice |-> (pool.next_voice + 1) % N_VOICES, stolen |-> TRUE]

Pool_allocate_steal_after_cursor(pool) ==
    LET free == {k \in 0..N_VOICES - 1 : Voice_is_free(pool.voices[k + 1])}
    IN  IF free # {}
        THEN [voice |-> CHOOSE k \in free : \A j \in free : k <= j,
              next_voice |-> pool.next_voice, stolen |-> FALSE]
        ELSE [voice |-> (pool.next_voice + 1) % N_VOICES,
              next_voice |-> (pool.next_voice + 1) % N_VOICES, stolen |-> TRUE]

Pool_allocate_cursor_stuck(pool) ==
    LET free == {k \in 0..N_VOICES - 1 : Voice_is_free(pool.voices[k + 1])}
    IN  IF free # {}
        THEN [voice |-> CHOOSE k \in free : \A j \in free : k <= j,
              next_voice |-> pool.next_voice, stolen |-> FALSE]
        ELSE [voice |-> pool.next_voice % N_VOICES,
              next_voice |-> pool.next_voice, stolen |-> TRUE]

Pool_allocate(pool) ==
    LET free == {k \in 0..N_VOICES - 1 : Voice_is_free(pool.voices[k + 1])}
    IN  IF free # {}
        THEN [voice |-> CHOOSE k \in free : \A j \in free : k <= j,
              next_voice |-> pool.next_voice, stolen |-> FALSE]
        ELSE [voice |-> pool.next_voice % N_VOICES,
              next_voice |-> (pool.next_voice + 1) % N_VOICES, stolen |-> TRUE]

\* The voice note_on(track_idx, ...) triggers and the cursor it leaves.
Pool_note_on_target(pool, track_idx) ==
    IF track_idx # None
    THEN [voice |-> track_idx[1] % N_VOICES, next_voice |-> pool.next_voice, stolen |-> FALSE]
    ELSE Pool_allocate(pool)

Pool_note_on(pool, track_idx, note, velocity, shuffle) ==
    LET t == Pool_note_on_target(pool, track_idx)
    IN  Ok([voices |-> [pool.voices EXCEPT
                          ![t.voice + 1] = Voice_note_on(@, note, velocity, shuffle)],
            next_voice |-> t.next_voice])

\* Two note_off variants the release properties must tell from the code's:
\* one ignores the target and releases every voice holding the note (C8), one
\* stops the targetless loop at the first voice holding the note (C9).
Pool_note_off_any_voice(pool, track_idx, note) ==
    Ok([pool EXCEPT !.voices =
            [k \in 1..N_VOICES |->
                IF pool.voices[k].current_note = Some(note)
                THEN Voice_note_off(pool.voices[k]) ELSE pool.voices[k]]])

Pool_note_off_first_match(pool, track_idx, note) ==
    IF track_idx # None
    THEN LET k == track_idx[1] % N_VOICES
         IN  IF pool.voices[k + 1].current_note = Some(note)
             THEN Ok([pool EXCEPT !.voices[k + 1] = Voice_note_off(@)])
             ELSE Ok(pool)
    ELSE LET holds == {k \in 1..N_VOICES : pool.voices[k].current_note = Some(note)}
         IN  IF holds = {} THEN Ok(pool)
             ELSE LET k == CHOOSE i \in holds : \A j \in holds : i <= j
                  IN  Ok([pool EXCEPT !.voices[k] = Voice_note_off(@)])

Pool_note_off(pool, track_idx, note) ==
    IF track_idx # None
    THEN LET k == track_idx[1] % N_VOICES
         IN  IF pool.voices[k + 1].current_note = Some(note)
             THEN Ok([pool EXCEPT !.voices[k + 1] = Voice_note_off(@)])
             ELSE Ok(pool)
    ELSE Ok([pool EXCEPT !.voices =
                [k \in 1..N_VOICES |->
                    IF pool.voices[k].current_note = Some(note)
                    THEN Voice_note_off(pool.voices[k]) ELSE pool.voices[k]]])

Pool_render(pool, n_frames) ==
    [pool EXCEPT !.voices = [k \in 1..N_VOICES |-> Voice_render(pool.voices[k], n_frames)]]

-----------------------------------------------------------------------------
(* audio/engine.py: events and _handle_event *)

\* The tuples the producers put on the queue, as records of one shape:
\* track_idx is None or Some(k); a field a kind does not carry is 0, "" or <<>>.
NoteOnEvent(track_idx, note, velocity) ==
    [kind |-> "note_on", track_idx |-> track_idx, note |-> note, velocity |-> velocity,
     engine_name |-> "", param |-> <<>>, value |-> 0]
NoteOffEvent(track_idx, note) ==
    [kind |-> "note_off", track_idx |-> track_idx, note |-> note, velocity |-> 0,
     engine_name |-> "", param |-> <<>>, value |-> 0]
SetEngineEvent(track_idx, engine_name) ==
    [kind |-> "set_engine", track_idx |-> track_idx, note |-> 0, velocity |-> 0,
     engine_name |-> engine_name, param |-> <<>>, value |-> 0]
SetParamEvent(track_idx, param, value) ==
    [kind |-> "set_param", track_idx |-> track_idx, note |-> 0, velocity |-> 0,
     engine_name |-> "", param |-> param, value |-> value]

handle_event(pool, event, shuffle) ==
    CASE event.kind = "note_on" ->
            Pool_note_on(pool, event.track_idx, event.note, event.velocity, shuffle)
      [] event.kind = "note_off" -> Pool_note_off(pool, event.track_idx, event.note)
      [] event.kind = "set_engine" ->
            Pool_set_track_engine(pool, event.track_idx, event.engine_name)
      [] event.kind = "set_param" ->
            Pool_set_track_param(pool, event.track_idx, event.param, event.value)
      [] OTHER -> Ok(pool)

\* The shuffles open to _handle_event(event).
Event_shuffles(pool, event) ==
    IF event.kind = "note_on"
    THEN Engine_shuffles(
             pool.voices[Pool_note_on_target(pool, event.track_idx).voice + 1].engine,
             event.note)
    ELSE {<<>>}

-----------------------------------------------------------------------------
(* History records *)

\* What a call was (an event record, or a render of n_frames) and how it ended.
Call(op, r) == [op |-> op, ok |-> r.ok, err |-> r.err]
RenderOp(n_frames) ==
    [kind |-> "render", track_idx |-> None, note |-> 0, velocity |-> 0,
     engine_name |-> "", param |-> <<>>, value |-> n_frames]
NoCall == [op |-> [RenderOp(0) EXCEPT !.kind = "none"], ok |-> TRUE, err |-> "none"]

pool == [voices |-> voices, next_voice |-> next_voice]

-----------------------------------------------------------------------------
(* sequencer/clock.py.  bpm is an integer number of beats per minute, swing  *)
(* is in thousandths, durations are exact rationals of a second.  A thread   *)
(* is named by its creation order, 1, 2, ...                                 *)

Clock(bpm) ==
    [bpm |-> bpm, running |-> FALSE, thread |-> None, step |-> 0, n_steps |-> 16,
     swing |-> 0, callbacks |-> <<>>]

Clock_add_step_callback(c, f) == [c EXCEPT !.callbacks = Append(@, f)]

\* list.remove(f): drops the first f, ValueError if there is none.
Clock_remove_step_callback(c, f) ==
    LET at == {i \in 1..Len(c.callbacks) : c.callbacks[i] = f}
    IN  IF at = {} THEN Raised(c, "ValueError")
        ELSE LET k == CHOOSE i \in at : \A j \in at : i <= j
             IN  Ok([c EXCEPT !.callbacks = SubSeq(@, 1, k - 1) \o SubSeq(@, k + 1, Len(@))])

\* start() with new_thread the thread it creates when the clock is not running.
Clock_start(c, new_thread) ==
    IF c.running THEN c
    ELSE [c EXCEPT !.running = TRUE, !.step = 0, !.thread = Some(new_thread)]

\* stop() up to the join, and from the join's return on.
Clock_stop_begin(c) == [c EXCEPT !.running = FALSE]
Clock_stop_end(c) == [c EXCEPT !.thread = None, !.step = 0]

Clock_reset(c) == [c EXCEPT !.step = 0]

\* A swing that lengthens every step, instead of shortening the odd ones.
Clock_step_duration_all_long(c, step) ==
    LET base == Rat(15, c.bpm)
        swing_amount == Rat(c.swing * 33, 100000)
    IN  IF c.swing = 0 THEN base ELSE RMul(base, RAdd(R1, swing_amount))

Clock_step_duration(c, step) ==
    LET base == Rat(15, c.bpm)
        swing_amount == Rat(c.swing * 33, 100000)
    IN  IF c.swing = 0 THEN base
        ELSE IF step % 2 = 0 THEN RMul(base, RAdd(R1, swing_amount))
        ELSE RMul(base, RSub(R1, swing_amount))

\* A loop that measures the next deadline from the time it is computed at.
Clock_next_tick_from_now(next_tick, now, duration) == RAdd(now, duration)

\* next_tick += duration
Clock_next_tick(next_tick, now, duration) == RAdd(next_tick, duration)

\* sleep_time = next_tick - time.perf_counter(); sleep_time > 0
Clock_sleeps(next_tick, now) == ~RLeq(next_tick, now)

\* A thread at the top of _run, before its first test of _running.
Clock_thread ==
    [pc |-> "while", step |-> 0, i |-> 0, seen |-> <<>>, regs |-> <<>>]

-----------------------------------------------------------------------------
(* The state of the parts a specification does not move *)

NoTicks == [s \in {"ATTACK", "DECAY", "SUSTAIN", "RELEASE"} |-> 0]
NoEnvLog == [run |-> "none", ticks |-> NoTicks, calls |-> 0, op |-> "none", rel |-> -1]
NoClockLog ==
    [calls |-> 0, ticks |-> 0, stopped |-> FALSE, late |-> FALSE, fire |-> <<>>, durs |-> <<>>,
     reset |-> FALSE, after_reset |-> FALSE]
NoStreamLog == [open |-> 0, life |-> <<>>]
Threads == {1, 2}
NoThread == [pc |-> "out", op |-> NoCall.op, k |-> -1, before |-> VoicePool]
NoLock == [owner |-> None, th |-> [t \in Threads |-> NoThread]]
NoLockLog == [calls |-> 0, mixed |-> FALSE, torn |-> FALSE]

InitEnvIdle == env = ADSREnvelope(10, 100, 700, 300) /\ elog = NoEnvLog
InitClockIdle == clock = Clock(120) /\ loops = <<>> /\ main = "idle" /\ clog = NoClockLog
InitLockIdle == lk = NoLock /\ llog = NoLockLog

NoFilterLog == [fc |-> <<>>, calls |-> 0, sets |-> 0, renders |-> 0]
NoConv == [seconds |-> 0, samples |-> <<>>]
NoDeadlines == [pc |-> "out"]
NoFMRender == [pc |-> "out"]
NoApp == [main |-> "none"]

InitFilterIdle == svf = SVFilter(1000000, 500, "lp") /\ flog = NoFilterLog
InitPartsIdle == InitFilterIdle /\ conv = NoConv /\ dl = NoDeadlines /\ fmr = NoFMRender /\ app = NoApp

InitAux == InitEnvIdle /\ InitClockIdle /\ slog = NoStreamLog /\ InitLockIdle /\ InitPartsIdle

-----------------------------------------------------------------------------
(* AudioEngine: producers, the stream and its callback *)

\* The events the producer threads send.
Events ==
    <<NoteOnEvent(None, 60, 100),
      NoteOnEvent(Some(6), 62, 100),
      NoteOffEvent(None, 60),
      SetEngineEvent(Some(-1), "vector"),
      SetEngineEvent(Some(4), "vector"),
      SetEngineEvent(Some(1), "organ"),
      SetParamEvent(Some(1), <<"s","u","s","t","a","i","n">>, 300),
      SetParamEvent(Some(0), <<"o","p","4","_","r","a","t","i","o">>, 2000),
      SetParamEvent(Some(5), <<"s","u","s","t","a","i","n">>, 300)>>

EventsOfKind(kind) == {i \in 1..Len(Events) : Events[i].kind = kind}

InitPool ==
    /\ voices = VoicePool.voices
    /\ next_voice = VoicePool.next_voice

InitHistory ==
    /\ last = NoCall
    /\ steals = <<>>
    /\ autos = <<>>
    /\ only_auto = TRUE
    /\ holding = [k \in 1..N_VOICES |-> FALSE]
    /\ calls = 0

Init ==
    /\ InitPool
    /\ InitHistory
    /\ queue = <<>>
    /\ running = FALSE
    /\ stream = "none"
    /\ cb = "idle"
    /\ enq = <<>>
    /\ applied = <<>>
    /\ last_cb = "none"
    /\ eng = FMEngine
    /\ InitAux

\* put_nowait on the unbounded queue.
Put(event) ==
    /\ Len(enq) < MaxEvents
    /\ queue' = Append(queue, event)
    /\ enq' = Append(enq, event)
    /\ UNCHANGED <<voices, next_voice, running, stream, cb, applied, last_cb,
                   last, poolHist, eng, aux>>

note_on == \E i \in EventsOfKind("note_on") : Put(Events[i])
note_off == \E i \in EventsOfKind("note_off") : Put(Events[i])
set_engine == \E i \in EventsOfKind("set_engine") : Put(Events[i])
set_param == \E i \in EventsOfKind("set_param") : Put(Events[i])

\* start(): a second start is a no-op.
start ==
    /\ ~running
    /\ running' = TRUE
    /\ stream' = "active"
    /\ UNCHANGED <<voices, next_voice, queue, cb, enq, applied, last_cb,
                   last, poolHist, eng, aux>>

\* stop(): stream.stop() returns once the callback in progress has ended.
stop ==
    /\ cb = "idle"
    /\ running' = FALSE
    /\ stream' = "none"
    /\ UNCHANGED <<voices, next_voice, queue, cb, enq, applied, last_cb,
                   last, poolHist, eng, aux>>

\* The stream calls _callback for the next block.
callback_begin ==
    /\ stream = "active"
    /\ cb = "idle"
    /\ cb' = "drain"
    /\ UNCHANGED <<voices, next_voice, queue, running, stream, enq, applied, last_cb,
                   last, poolHist, eng, aux>>

\* One turn of the drain loop: get_nowait() returned an event and
\* _handle_event(event) ran.  An exception leaves _callback; the stream takes
\* an exception from its callback as an abort and calls it no more.
callback_drain ==
    /\ cb = "drain"
    /\ queue # <<>>
    /\ \E shuffle \in Event_shuffles(pool, Head(queue)) :
          LET r == handle_event(pool, Head(queue), shuffle)
          IN  /\ queue' = Tail(queue)
              /\ voices' = r.val.voices
              /\ next_voice' = r.val.next_voice
              /\ last' = Call(Head(queue), r)
              /\ IF r.ok
                 THEN /\ applied' = Append(applied, Head(queue))
                      /\ UNCHANGED <<cb, stream, last_cb>>
                 ELSE /\ cb' = "idle"
                      /\ stream' = "aborted"
                      /\ last_cb' = "raised"
                      /\ UNCHANGED applied
    /\ UNCHANGED <<running, enq, poolHist, eng, aux>>

\* get_nowait() raised Empty: render the block and hand it to the stream.
callback_render ==
    /\ cb = "drain"
    /\ queue = <<>>
    /\ \E n_frames \in 1..MaxFrames :
          /\ voices' = Pool_render(pool, n_frames).voices
          /\ last' = Call(RenderOp(n_frames), Ok(pool))
    /\ cb' = "idle"
    /\ last_cb' = "rendered"
    /\ UNCHANGED <<next_voice, queue, running, stream, enq, applied, poolHist, eng, aux>>

Next ==
    \/ note_on \/ note_off \/ set_engine \/ set_param
    \/ start \/ stop
    \/ callback_begin \/ callback_drain \/ callback_render

Spec == Init /\ [][Next]_vars

-----------------------------------------------------------------------------
(* VoicePool called directly: each method is one step under the pool's lock *)

PoolNotes == {60, 62}
PoolNoteOnTargets == {None, Some(2), Some(4)}
PoolNoteOffTargets == {None, Some(2), Some(-4)}
PoolEngineChanges == {<<1, "fm">>, <<1, "vector">>, <<5, "fm">>}
PoolParamChanges == {<<1, <<"s","u","s","t","a","i","n">>, 300>>, <<2, <<"a","r","p","_","m","o","d","e">>, 1000>>, <<2, <<"b","o","g","u","s">>, 1000>>}

\* The history after a pool call: op ended as r; t is what note_on's target
\* selection returned when op is a note_on; at most budget calls are made.
PoolHistory(op, r, t, budget) ==
    LET auto == op.kind = "note_on" /\ op.track_idx = None
        keeps == only_auto /\ (auto \/ op.kind = "render")
    IN  /\ calls < budget
        /\ calls' = calls + 1
        /\ last' = Call(op, r)
        /\ steals' = IF auto /\ t.stolen
                     THEN LET all == Append(steals, t.voice)
                          IN  SubSeq(all, Max(1, Len(all) - N_VOICES + 1), Len(all))
                     ELSE steals
        /\ only_auto' = keeps
        /\ holding' = [k \in 1..N_VOICES |->
                         CASE ~r.ok -> holding[k]
                           [] op.kind = "note_on" -> holding[k] \/ k = t.voice + 1
                           [] op.kind = "note_off" ->
                                holding[k] /\ ~(/\ voices[k].current_note = Some(op.note)
                                             /\ op.track_idx # None =>
                                                   k = (op.track_idx[1] % N_VOICES) + 1)
                           [] op.kind = "set_engine" -> holding[k] /\ voices'[k] = voices[k]
                           [] OTHER -> holding[k]]
        /\ autos' = IF ~keeps THEN <<>>
                    ELSE IF auto /\ Len(autos) < MaxLog THEN Append(autos, t.voice)
                    ELSE autos

PoolFrame == UNCHANGED <<queue, running, stream, cb, enq, applied, last_cb, eng, aux>>

CallNoteOn(track_idx, note, velocity, budget) ==
    \E shuffle \in Event_shuffles(pool, NoteOnEvent(track_idx, note, velocity)) :
        LET r == Pool_note_on(pool, track_idx, note, velocity, shuffle)
        IN  /\ voices' = r.val.voices
            /\ next_voice' = r.val.next_voice
            /\ PoolHistory(NoteOnEvent(track_idx, note, velocity), r,
                           Pool_note_on_target(pool, track_idx), budget)
            /\ PoolFrame

CallNoteOff(track_idx, note, budget) ==
    LET r == Pool_note_off(pool, track_idx, note)
    IN  /\ voices' = r.val.voices
        /\ next_voice' = r.val.next_voice
        /\ PoolHistory(NoteOffEvent(track_idx, note), r, <<>>, budget)
        /\ PoolFrame

CallSetTrackEngine(track_idx, engine_name, budget) ==
    LET r == Pool_set_track_engine(pool, Some(track_idx), engine_name)
    IN  /\ voices' = r.val.voices
        /\ next_voice' = r.val.next_voice
        /\ PoolHistory(SetEngineEvent(Some(track_idx), engine_name), r, <<>>, budget)
        /\ PoolFrame

CallSetTrackParam(track_idx, param, value, budget) ==
    LET r == Pool_set_track_param(pool, Some(track_idx), param, value)
    IN  /\ voices' = r.val.voices
        /\ next_voice' = r.val.next_voice
        /\ PoolHistory(SetParamEvent(Some(track_idx), param, value), r, <<>>, budget)
        /\ PoolFrame

CallRender(n_frames, budget) ==
    /\ voices' = Pool_render(pool, n_frames).voices
    /\ UNCHANGED next_voice
    /\ PoolHistory(RenderOp(n_frames), Ok(pool), <<>>, budget)
    /\ PoolFrame

pool_note_on ==
    \E track_idx \in PoolNoteOnTargets, note \in PoolNotes :
        CallNoteOn(track_idx, note, 100, MaxCalls)

pool_note_off ==
    \E track_idx \in PoolNoteOffTargets, note \in PoolNotes :
        CallNoteOff(track_idx, note, MaxCalls)

pool_set_track_engine ==
    \E c \in PoolEngineChanges : CallSetTrackEngine(c[1], c[2], MaxCalls)

pool_set_track_param ==
    \E c \in PoolParamChanges : CallSetTrackParam(c[1], c[2], c[3], MaxCalls)

pool_render == \E n_frames \in 1..MaxFrames : CallRender(n_frames, MaxCalls)

NextPool ==
    \/ pool_note_on \/ pool_note_off
    \/ pool_set_track_engine \/ pool_set_track_param
    \/ pool_render

SpecPool == Init /\ [][NextPool]_vars

-----------------------------------------------------------------------------
(* VoicePool under over-subscription: a stream of auto-allocated notes with  *)
(* a few other calls in between, followed further than SpecPool goes.        *)

steal_note_on == CallNoteOn(None, 60, 100, MaxStealCalls)
steal_note_off == CallNoteOff(None, 60, MaxStealCalls)
steal_set_track_engine == CallSetTrackEngine(1, "fm", MaxStealCalls)
steal_render == \E n_frames \in 1..MaxFrames : CallRender(n_frames, MaxStealCalls)

NextSteal ==
    \/ steal_note_on \/ steal_note_off \/ steal_set_track_engine \/ steal_render

SpecSteal == Init /\ [][NextSteal]_vars

-----------------------------------------------------------------------------
(* One engine instance driven through the SynthEngine interface *)

ENGINE_NAMES == <<"fm", "vector", "subtractive">>

\* The parameter names and values the engine is given; every name goes to
\* every kind of engine, so a key of one engine is an unknown name to another.
ParamNames ==
    {<<"a","l","g","o","r","i","t","h","m">>, <<"o","p","1","_","s","u","s","t","a","i","n">>, <<"o","p","3","_","l","e","v","e","l">>, <<"o","p","4","_","r","a","t","i","o">>, <<"o","p","-","1","_","r","a","t","i","o">>,
     <<"o","p","_","r","a","t","i","o">>, <<"o","p","1","_","v","o","l","u","m","e">>, <<"b","o","g","u","s">>,
     <<"s","u","s","t","a","i","n">>, <<"o","s","c","_","a">>, <<"o","s","c","_","e">>, <<"a","m","p","_","s","u","s","t","a","i","n">>, <<"a","r","p","_","m","o","d","e">>}
ParamValues == {300, 2000}
EngineNotes == {60, 62}

EngineOp(kind, note, param, value) ==
    [kind |-> kind, track_idx |-> None, note |-> note, velocity |-> 0,
     engine_name |-> "", param |-> param, value |-> value]

InitParam ==
    /\ InitPool
    /\ InitHistory
    /\ queue = <<>>
    /\ running = FALSE
    /\ stream = "none"
    /\ cb = "idle"
    /\ enq = <<>>
    /\ applied = <<>>
    /\ last_cb = "none"
    /\ \E i \in 1..Len(ENGINE_NAMES) : eng = make_engine(ENGINE_NAMES[i])
    /\ InitAux

\* Every engine call counts, and at most MaxEngineCalls are made.
ParamFrame ==
    /\ calls < MaxEngineCalls
    /\ calls' = calls + 1
    /\ UNCHANGED <<voices, next_voice, queue, running, stream, cb, enq, applied,
                   last_cb, steals, autos, only_auto, holding, aux>>

engine_note_on ==
    \E note \in EngineNotes : \E shuffle \in Engine_shuffles(eng, note) :
        /\ eng' = Engine_note_on(eng, note, 100, shuffle)
        /\ last' = Call(EngineOp("note_on", note, <<>>, 0), Ok(eng))
        /\ ParamFrame

engine_note_off ==
    /\ eng' = Engine_note_off(eng)
    /\ last' = Call(EngineOp("note_off", 0, <<>>, 0), Ok(eng))
    /\ ParamFrame

engine_render_block ==
    \E n_frames \in 1..MaxFrames :
        /\ eng' = Engine_render_block(eng, n_frames)
        /\ last' = Call(EngineOp("render", 0, <<>>, n_frames), Ok(eng))
        /\ ParamFrame

engine_set_param ==
    \E name \in ParamNames, value \in ParamValues :
        LET r == Engine_set_param(eng, name, value)
        IN  /\ eng' = r.val
            /\ last' = Call(EngineOp("set_param", 0, name, value), r)
            /\ ParamFrame

engine_arp_tick ==
    /\ eng.kind = "subtractive"
    /\ eng' = Sub_arp_tick(eng)
    /\ last' = Call(EngineOp("arp_tick", 0, <<>>, 0), Ok(eng))
    /\ ParamFrame

NextParam ==
    \/ engine_note_on \/ engine_note_off \/ engine_render_block
    \/ engine_set_param \/ engine_arp_tick

SpecParam == InitParam /\ [][NextParam]_vars

-----------------------------------------------------------------------------
(* One ADSREnvelope driven directly: note_on, note_off and single ticks *)

\* Constructor arguments: times in thousandths of a second, sustain levels.
EnvTimes == {5, 500, 750}
EnvSustains == {0, 500, 1000}

InitEnv ==
    /\ InitPool
    /\ InitHistory
    /\ queue = <<>> /\ running = FALSE /\ stream = "none" /\ cb = "idle"
    /\ enq = <<>> /\ applied = <<>> /\ last_cb = "none"
    /\ eng = FMEngine
    /\ \E attack \in EnvTimes, decay \in EnvTimes, sustain \in EnvSustains, release \in EnvTimes :
          env = ADSREnvelope(attack, decay, sustain, release)
    /\ elog = NoEnvLog
    /\ InitClockIdle /\ slog = NoStreamLog /\ InitLockIdle /\ InitPartsIdle

EnvFrame == UNCHANGED <<core, clockVars, slog, lockVars, partVars>>

\* elog.run follows one note: "held" from a note_on given in Idle, "released"
\* from a note_off given in Sustain, "dirty" after any other call that moved
\* the envelope.  elog.ticks counts, while the run is not dirty, the ticks
\* made in each state.  elog.rel counts the ticks made since the envelope
\* entered Release from another state (-1 outside Release, 0 at the entry);
\* a note_off given in Release leaves it, a note_on ends the count.
env_note_on ==
    /\ elog.calls < MaxEnvCalls
    /\ env' = ADSR_note_on(env)
    /\ elog' = [run |-> IF env.state = "IDLE" THEN "held" ELSE "dirty",
                ticks |-> NoTicks, calls |-> elog.calls + 1, op |-> "note_on",
                rel |-> -1]
    /\ EnvFrame

env_note_off ==
    /\ elog.calls < MaxEnvCalls
    /\ env' = ADSR_note_off(env)
    /\ elog' = [elog EXCEPT
                  !.run = IF env.state = "IDLE" THEN @
                          ELSE IF @ = "held" /\ env.state = "SUSTAIN" THEN "released"
                          ELSE "dirty",
                  !.ticks = IF env.state = "IDLE" \/ (elog.run = "held" /\ env.state = "SUSTAIN")
                            THEN @ ELSE NoTicks,
                  !.calls = @ + 1, !.op = "note_off",
                  !.rel = IF env.state \in {"IDLE", "RELEASE"} THEN @ ELSE 0]
    /\ EnvFrame

env_tick ==
    LET counted == elog.run \in {"held", "released"} /\ env.state # "IDLE"
    IN  /\ (counted /\ env.state = "SUSTAIN") => elog.ticks["SUSTAIN"] < MaxHold
        /\ env' = ADSR_tick(env)
        /\ elog' = [elog EXCEPT
                      !.ticks = IF counted THEN [@ EXCEPT ![env.state] = @ + 1] ELSE @,
                      !.op = "tick",
                      !.rel = IF env.state = "RELEASE" THEN @ + 1 ELSE @]
        /\ EnvFrame

NextEnv == env_note_on \/ env_note_off \/ env_tick

SpecEnv == InitEnv /\ [][NextEnv]_vars

-----------------------------------------------------------------------------
(* The Clock: one calling thread and the loop threads start() creates *)

\* The callbacks registered ("bad" raises an Exception whenever it is
\* called), and the values n_steps and swing are set to.
StepCallbacks == {"a", "bad"}
NStepsValues == {2, 3}
SwingValues == {500}

InitClock ==
    /\ InitPool
    /\ InitHistory
    /\ queue = <<>> /\ running = FALSE /\ stream = "none" /\ cb = "idle"
    /\ enq = <<>> /\ applied = <<>> /\ last_cb = "none"
    /\ eng = FMEngine
    /\ InitEnvIdle /\ slog = NoStreamLog /\ InitLockIdle /\ InitPartsIdle
    /\ clock = Clock(120) /\ loops = <<>> /\ main = "idle" /\ clog = NoClockLog

ClockFrame == UNCHANGED <<core, envVars, slog, lockVars, partVars>>

\* A call from outside: counted, and it ends the run of consecutive steps
\* whose durations clog.durs holds, and the wait for the first callback after
\* a reset().
ClockCall ==
    /\ main = "idle"
    /\ clog.calls < MaxClockCalls
    /\ clog' = [clog EXCEPT !.calls = @ + 1, !.durs = <<>>, !.reset = FALSE]

clock_add_step_callback ==
    \E f \in StepCallbacks :
        /\ ClockCall
        /\ clock' = Clock_add_step_callback(clock, f)
        /\ UNCHANGED <<loops, main>>
        /\ ClockFrame

\* regs of a running turn keeps the callbacks registered ever since the turn
\* began: a removal takes its entry out of regs as well.
StillRegistered(regs, f) ==
    LET at == {i \in 1..Len(regs) : regs[i] = f}
        k == CHOOSE i \in at : \A j \in at : i <= j
    IN  IF at = {} THEN regs ELSE SubSeq(regs, 1, k - 1) \o SubSeq(regs, k + 1, Len(regs))

clock_remove_step_callback ==
    \E f \in StepCallbacks :
        /\ ClockCall
        /\ clock' = Clock_remove_step_callback(clock, f).val
        /\ loops' = [t \in 1..Len(loops) |->
                        [loops[t] EXCEPT !.regs = StillRegistered(@, f)]]
        /\ UNCHANGED main
        /\ ClockFrame

clock_start ==
    /\ main = "idle"
    /\ clog.calls < MaxClockCalls
    /\ clock' = Clock_start(clock, Len(loops) + 1)
    /\ loops' = IF clock.running THEN loops ELSE Append(loops, Clock_thread)
    /\ clog' = [clog EXCEPT !.calls = @ + 1, !.durs = <<>>,
                            !.stopped = IF clock.running THEN @ ELSE FALSE]
    /\ UNCHANGED main
    /\ ClockFrame

\* stop() up to thread.join(timeout=1.0); with no thread it returns at once.
clock_stop ==
    /\ main = "idle"
    /\ clog.calls < MaxClockCalls
    /\ clog' = [clog EXCEPT !.calls = @ + 1, !.durs = <<>>, !.reset = FALSE,
                            !.stopped = IF clock.thread = None THEN TRUE ELSE @]
    /\ IF clock.thread = None
       THEN /\ clock' = Clock_stop_end(Clock_stop_begin(clock))
            /\ UNCHANGED main
       ELSE /\ clock' = Clock_stop_begin(clock)
            /\ main' = "join"
    /\ UNCHANGED loops
    /\ ClockFrame

\* join returns: the thread has ended, or a second has passed while it is
\* inside a step callback, which may take any time.
clock_stop_return ==
    /\ main = "join"
    /\ loops[clock.thread[1]].pc \in {"done", "cb"}
    /\ clock' = Clock_stop_end(clock)
    /\ main' = "idle"
    /\ clog' = [clog EXCEPT !.stopped = TRUE]
    /\ UNCHANGED loops
    /\ ClockFrame

\* clog.reset: a reset() made while the clock runs with a callback registered
\* has returned, and since then no step callback was entered and no other call
\* was made; clog.after_reset: the step callback entered last (clog.fire) was
\* the first one after such a reset.
clock_reset ==
    /\ main = "idle"
    /\ clog.calls < MaxClockCalls
    /\ clog' = [clog EXCEPT !.calls = @ + 1, !.durs = <<>>,
                            !.reset = clock.running /\ clock.callbacks # <<>>]
    /\ clock' = Clock_reset(clock)
    /\ UNCHANGED <<loops, main>>
    /\ ClockFrame

clock_set_n_steps ==
    \E n \in NStepsValues :
        /\ ClockCall
        /\ clock' = [clock EXCEPT !.n_steps = n]
        /\ UNCHANGED <<loops, main>>
        /\ ClockFrame

clock_set_swing ==
    \E x \in SwingValues :
        /\ ClockCall
        /\ clock' = [clock EXCEPT !.swing = x]
        /\ UNCHANGED <<loops, main>>
        /\ ClockFrame

\* while self._running: ... step = self._step
run_while ==
    \E t \in 1..Len(loops) :
        /\ loops[t].pc = "while"
        /\ IF clock.running
           THEN /\ clog.ticks < MaxTicks
                /\ loops' = [loops EXCEPT ![t] = [pc |-> "for", step |-> clock.step, i |-> 0,
                                                  seen |-> <<>>, regs |-> clock.callbacks]]
                /\ clog' = [clog EXCEPT !.ticks = @ + 1]
           ELSE /\ loops' = [loops EXCEPT ![t].pc = "done"]
                /\ UNCHANGED clog
        /\ UNCHANGED <<clock, main>>
        /\ ClockFrame

\* for cb in self._step_callbacks: the list iterator takes the item at its
\* index in the list as it is now, and cb(step) is entered.
run_for ==
    \E t \in 1..Len(loops) :
        /\ loops[t].pc = "for"
        /\ IF loops[t].i < Len(clock.callbacks)
           THEN /\ loops' = [loops EXCEPT ![t].pc = "cb", ![t].i = @ + 1,
                                          ![t].seen = Append(@, clock.callbacks[loops[t].i + 1])]
                /\ clog' = [clog EXCEPT !.fire = <<loops[t].step, clock.n_steps>>,
                                        !.late = @ \/ clog.stopped,
                                        !.reset = FALSE, !.after_reset = clog.reset]
           ELSE /\ loops' = [loops EXCEPT ![t].pc = "after"]
                /\ UNCHANGED clog
        /\ UNCHANGED <<clock, main>>
        /\ ClockFrame

\* cb(step) returns, or raises an Exception that the except clause drops.
run_callback_return ==
    \E t \in 1..Len(loops) :
        /\ loops[t].pc = "cb"
        /\ loops' = [loops EXCEPT ![t].pc = "for"]
        /\ UNCHANGED <<clock, main, clog>>
        /\ ClockFrame

\* duration = self._step_duration(step); self._step = (step + 1) % self.n_steps
run_advance ==
    \E t \in 1..Len(loops) :
        /\ loops[t].pc = "after"
        /\ clock' = [clock EXCEPT !.step = (loops[t].step + 1) % clock.n_steps]
        /\ loops' = [loops EXCEPT ![t].pc = "sleep"]
        /\ clog' = [clog EXCEPT !.durs =
                        LET all == Append(@, <<loops[t].step,
                                               Clock_step_duration(clock, loops[t].step)>>)
                        IN  SubSeq(all, Max(1, Len(all) - 1), Len(all))]
        /\ UNCHANGED main
        /\ ClockFrame

\* time.sleep(sleep_time) returns (or was skipped).
run_sleep ==
    \E t \in 1..Len(loops) :
        /\ loops[t].pc = "sleep"
        /\ loops' = [loops EXCEPT ![t].pc = "while"]
        /\ UNCHANGED <<clock, main, clog>>
        /\ ClockFrame

NextClock ==
    \/ clock_add_step_callback \/ clock_remove_step_callback
    \/ clock_start \/ clock_stop \/ clock_stop_return \/ clock_reset
    \/ clock_set_n_steps \/ clock_set_swing
    \/ run_while \/ run_for \/ run_callback_return \/ run_advance \/ run_sleep

SpecClock == InitClock /\ [][NextClock]_vars

-----------------------------------------------------------------------------
(* AudioEngine.start() and stop() called in any order.  slog.open counts the  *)
(* OutputStream objects of the sound device that were created and not closed, *)
(* slog.life lists the calls made.                                            *)

MaxStreamCalls == 5

\* What sd.OutputStream(...) and stream.start() can do: both succeed, the
\* constructor raises (no output device), or start() raises.
StreamOutcomes == {"ok", "ctor_raises", "start_raises"}

\* start() without the test of _running.
AudioEngine_start_again(a, outcome) ==
    [running |-> TRUE,
     stream |-> CASE outcome = "ok" -> "active"
                  [] outcome = "ctor_raises" -> a.stream
                  [] OTHER -> "open",
     open |-> IF outcome = "ctor_raises" THEN a.open ELSE a.open + 1,
     raised |-> outcome # "ok"]

\* start(), a being _running, the state of _stream ("none" for None) and the
\* number of streams the device holds open.
AudioEngine_start(a, outcome) ==
    IF a.running
    THEN [running |-> TRUE, stream |-> a.stream, open |-> a.open, raised |-> FALSE]
    ELSE [running |-> TRUE,
          stream |-> CASE outcome = "ok" -> "active"
                       [] outcome = "ctor_raises" -> a.stream
                       [] OTHER -> "open",
          open |-> IF outcome = "ctor_raises" THEN a.open ELSE a.open + 1,
          raised |-> outcome # "ok"]

\* stop(): _stream.stop(), _stream.close() and _stream = None when there is a
\* stream.
AudioEngine_stop(a) ==
    [running |-> FALSE,
     stream |-> "none",
     open |-> IF a.stream # "none" THEN a.open - 1 ELSE a.open,
     raised |-> FALSE]

AudioEngineState == [running |-> running, stream |-> stream, open |-> slog.open]

InitStream == Init

StreamFrame ==
    UNCHANGED <<voices, next_voice, queue, cb, enq, applied, last_cb, last, poolHist, eng,
                envVars, clockVars, lockVars, partVars>>

stream_start ==
    \E outcome \in StreamOutcomes :
        LET r == AudioEngine_start(AudioEngineState, outcome)
        IN  /\ Len(slog.life) < MaxStreamCalls
            /\ running' = r.running
            /\ stream' = r.stream
            /\ slog' = [open |-> r.open,
                        life |-> Append(slog.life, IF r.raised THEN "start_raised" ELSE "start")]
            /\ StreamFrame

\* stream.stop() returns once the callback in progress has ended.
stream_stop ==
    LET r == AudioEngine_stop(AudioEngineState)
    IN  /\ Len(slog.life) < MaxStreamCalls
        /\ cb = "idle"
        /\ running' = r.running
        /\ stream' = r.stream
        /\ slog' = [open |-> r.open, life |-> Append(slog.life, "stop")]
        /\ StreamFrame

NextStream ==
    \/ stream_start \/ stream_stop
    \/ callback_begin \/ callback_render

SpecStream == InitStream /\ [][NextStream]_vars

-----------------------------------------------------------------------------
(* VoicePool called from two threads.  lk.owner is the holder of _lock,       *)
(* lk.th[t] where thread t is in its call: "out", "wait" at with self._lock,  *)
(* "begin" and "half" inside a method that changes a voice, "render" inside   *)
(* render's loop (k voices done), "release" at the end of the with block.     *)
(* before is the pool as it was when the lock was taken.  llog.mixed: render  *)
(* rendered a voice another call had changed in part; llog.torn: a call left  *)
(* the pool in a state other than the one it gives when run alone.            *)

MaxLockCalls == 3

LockOps ==
    {NoteOnEvent(None, 60, 100), NoteOnEvent(Some(1), 62, 100), NoteOffEvent(None, 60),
     SetEngineEvent(Some(1), "fm"), SetEngineEvent(None, "fm"),
     SetParamEvent(Some(0), <<"o","p","4","_","r","a","t","i","o">>, 2000), RenderOp(1)}

\* A lock that lets every thread in.
Lock_always_free(l) == TRUE

\* threading.Lock: acquire goes through when no thread holds it.
Lock_free(l) == l.owner = None

\* The first statements of a call inside the lock: Voice.note_on up to
\* self.active = True on the voice picked, Voice.change_engine up to the new
\* engine.  touched is the voice left changed in part, -1 if none.
Pool_begin(p, op) ==
    CASE op.kind = "note_on" ->
            LET t == Pool_note_on_target(p, op.track_idx)
            IN  [voices |-> [p.voices EXCEPT ![t.voice + 1] =
                                [@ EXCEPT !.current_note = Some(op.note),
                                          !.velocity = op.velocity, !.active = TRUE]],
                 next_voice |-> t.next_voice, touched |-> t.voice]
      [] op.kind = "set_engine" ->
            LET r == Pool_set_track_engine(p, op.track_idx, op.engine_name)
                k == IF op.track_idx = None THEN -1 ELSE PyIndex(op.track_idx[1], N_VOICES)
            IN  IF r.ok /\ p.voices[k + 1].engine_name # op.engine_name
                THEN [voices |-> [p.voices EXCEPT ![k + 1] =
                                     [@ EXCEPT !.engine_name = op.engine_name,
                                               !.engine = make_engine(op.engine_name)]],
                      next_voice |-> p.next_voice, touched |-> k]
                ELSE [voices |-> p.voices, next_voice |-> p.next_voice, touched |-> -1]
      [] OTHER -> [voices |-> p.voices, next_voice |-> p.next_voice, touched |-> -1]

\* The rest of the call: self.engine.note_on(...), the reset of current_note
\* and active, or the whole of note_off and set_track_param.
Pool_finish(p, op, touched, shuffle) ==
    CASE op.kind = "note_on" ->
            [p EXCEPT !.voices[touched + 1].engine =
                            Engine_note_on(@, op.note, op.velocity, shuffle)]
      [] op.kind = "set_engine" ->
            IF touched >= 0
            THEN [p EXCEPT !.voices[touched + 1].current_note = None,
                              !.voices[touched + 1].active = FALSE]
            ELSE p
      [] OTHER -> handle_event(p, op, shuffle).val

InitLock ==
    /\ InitPool /\ InitHistory
    /\ queue = <<>> /\ running = FALSE /\ stream = "none" /\ cb = "idle"
    /\ enq = <<>> /\ applied = <<>> /\ last_cb = "none" /\ eng = FMEngine
    /\ InitAux

LockFrame ==
    UNCHANGED <<queue, running, stream, cb, enq, applied, last_cb, last, poolHist, eng,
                envVars, clockVars, slog, partVars>>

\* A thread calls a method of the pool.
lock_call ==
    \E t \in Threads, op \in LockOps :
        /\ lk.th[t].pc = "out"
        /\ llog.calls < MaxLockCalls
        /\ lk' = [lk EXCEPT !.th[t].pc = "wait", !.th[t].op = op]
        /\ llog' = [llog EXCEPT !.calls = @ + 1]
        /\ UNCHANGED <<voices, next_voice>>
        /\ LockFrame

\* with self._lock: entered.
lock_acquire ==
    \E t \in Threads :
        /\ lk.th[t].pc = "wait"
        /\ Lock_free(lk)
        /\ lk' = [lk EXCEPT !.owner = Some(t),
                            !.th[t].pc = IF lk.th[t].op.kind = "render" THEN "render"
                                         ELSE "begin",
                            !.th[t].k = IF lk.th[t].op.kind = "render" THEN 0 ELSE -1,
                            !.th[t].before = pool]
        /\ UNCHANGED <<voices, next_voice, llog>>
        /\ LockFrame

lock_begin ==
    \E t \in Threads :
        LET r == Pool_begin(pool, lk.th[t].op)
        IN  /\ lk.th[t].pc = "begin"
            /\ voices' = r.voices
            /\ next_voice' = r.next_voice
            /\ lk' = [lk EXCEPT !.th[t].pc = "half", !.th[t].k = r.touched]
            /\ UNCHANGED llog
            /\ LockFrame

lock_finish ==
    \E t \in Threads :
        /\ lk.th[t].pc = "half"
        /\ \E shuffle \in Event_shuffles(lk.th[t].before, lk.th[t].op) :
              LET r == Pool_finish(pool, lk.th[t].op, lk.th[t].k, shuffle)
              IN  /\ voices' = r.voices
                  /\ next_voice' = r.next_voice
                  /\ llog' = [llog EXCEPT !.torn =
                                 @ \/ r # handle_event(lk.th[t].before, lk.th[t].op, shuffle).val]
        /\ lk' = [lk EXCEPT !.th[t].pc = "release", !.th[t].k = -1]
        /\ LockFrame

\* One turn of for voice in self.voices: out += voice.render(n_frames).
lock_render_voice ==
    \E t \in Threads :
        /\ lk.th[t].pc = "render"
        /\ LET k == lk.th[t].k
               n_frames == lk.th[t].op.value
               last_voice == k + 1 = N_VOICES
               after == [voices EXCEPT ![k + 1] = Voice_render(@, n_frames)]
           IN  /\ voices' = after
               /\ lk' = [lk EXCEPT !.th[t].k = IF last_voice THEN -1 ELSE k + 1,
                                   !.th[t].pc = IF last_voice THEN "release" ELSE "render"]
               /\ llog' = [llog EXCEPT
                             !.mixed = @ \/ \E u \in Threads \ {t} :
                                               lk.th[u].pc = "half" /\ lk.th[u].k = k,
                             !.torn = @ \/ (last_voice /\
                                            after # Pool_render(lk.th[t].before, n_frames).voices)]
        /\ UNCHANGED next_voice
        /\ LockFrame

\* The with block is left, by its end or by an exception.
lock_release ==
    \E t \in Threads :
        /\ lk.th[t].pc = "release"
        /\ lk' = [lk EXCEPT !.owner = None, !.th[t] = NoThread]
        /\ UNCHANGED <<voices, next_voice, llog>>
        /\ LockFrame

NextLock ==
    \/ lock_call \/ lock_acquire \/ lock_begin \/ lock_finish
    \/ lock_render_voice \/ lock_release

SpecLock == InitLock /\ [][NextLock]_vars

-----------------------------------------------------------------------------
(* One SVFilter: its cutoff is assigned (as SubtractiveEngine.set_param and   *)
(* render_block do) and blocks are rendered.  flog.fc is the fc of the last   *)
(* render since the cutoff was assigned, flog.sets and flog.renders count the *)
(* assignments above the upper limit and the renders.                         *)

MaxFilterCalls == 4

\* The values assigned to cutoff, in Hz: below, at and between the limits,
\* just above the upper limit and far above it.
CutoffValues ==
    {Rat(-5, 1), Rat(10, 1), Rat(20, 1), Rat(1000, 1), Rat(21609, 1), Rat(216091, 10),
     Rat(25000, 1), Rat(30000, 1)}

InitFilter ==
    /\ InitPool /\ InitHistory
    /\ queue = <<>> /\ running = FALSE /\ stream = "none" /\ cb = "idle"
    /\ enq = <<>> /\ applied = <<>> /\ last_cb = "none" /\ eng = FMEngine
    /\ InitEnvIdle /\ InitClockIdle /\ slog = NoStreamLog /\ InitLockIdle
    /\ \E mode \in {"lp", "hp", "bp"} : svf = SVFilter(1000000, 500, mode)
    /\ flog = [fc |-> <<>>, calls |-> 0, sets |-> 0, renders |-> 0]
    /\ conv = NoConv /\ dl = NoDeadlines /\ fmr = NoFMRender /\ app = NoApp

FilterFrame == UNCHANGED <<core, envVars, clockVars, slog, lockVars, conv, dl, fmr, app>>

\* self.filt.cutoff = ...
filter_set_cutoff ==
    \E cutoff \in CutoffValues :
        /\ flog.calls < MaxFilterCalls
        /\ svf' = [svf EXCEPT !.cutoff = cutoff]
        /\ flog' = [flog EXCEPT !.fc = <<>>, !.calls = @ + 1,
                                !.sets = IF RLeq(cutoff, Rat(21609, 1)) THEN 0 ELSE @ + 1,
                                !.renders = IF RLeq(cutoff, Rat(21609, 1)) THEN 0 ELSE @]
        /\ FilterFrame

filter_render_block ==
    LET r == SVFilter_render_block(svf)
    IN  /\ flog.calls < MaxFilterCalls
        /\ svf' = r.self
        /\ flog' = [flog EXCEPT !.fc = r.fc, !.calls = @ + 1, !.renders = @ + 1]
        /\ FilterFrame

NextFilter == filter_set_cutoff \/ filter_render_block

SpecFilter == InitFilter /\ [][NextFilter]_vars

-----------------------------------------------------------------------------
(* _time_to_samples applied to one time *)

\* The times converted, in thousandths of a second: -0.2 s to 1.5 s in steps
\* of 0.025 s.
TimeValues == {25 * k : k \in -8..60}

InitTime ==
    /\ InitPool /\ InitHistory
    /\ queue = <<>> /\ running = FALSE /\ stream = "none" /\ cb = "idle"
    /\ enq = <<>> /\ applied = <<>> /\ last_cb = "none" /\ eng = FMEngine
    /\ InitEnvIdle /\ InitClockIdle /\ slog = NoStreamLog /\ InitLockIdle
    /\ InitFilterIdle /\ dl = NoDeadlines /\ fmr = NoFMRender /\ app = NoApp
    /\ \E seconds \in TimeValues : conv = [seconds |-> seconds, samples |-> <<>>]

convert ==
    /\ conv.samples = <<>>
    /\ conv' = [conv EXCEPT !.samples = <<time_to_samples(conv.seconds)>>]
    /\ UNCHANGED <<core, envVars, clockVars, slog, lockVars, svf, flog, dl, fmr, app>>

NextTime == convert

SpecTime == InitTime /\ [][NextTime]_vars

-----------------------------------------------------------------------------
(* The timing loop of one Clock thread with the time.  dl.now is the value    *)
(* of time.perf_counter(), dl.next_tick the loop's local of that name, both   *)
(* rationals of a second.  History: dl.start the time _run began at, dl.sum   *)
(* the sum of the step durations so far, dl.k the ticks fired, dl.sleeps and  *)
(* dl.skips the ticks after which the loop slept and did not.                 *)

MaxDeadlineTicks == 3

\* How long the callbacks of one tick take, how late a sleep wakes up, and
\* when _run begins, in seconds.
CallbackTimes == {Rat(0, 1), Rat(1, 10), Rat(3, 10)}
WakeDelays == {Rat(0, 1), Rat(1, 20)}
StartTimes == {Rat(0, 1), Rat(1, 3)}

InitDeadline ==
    /\ InitPool /\ InitHistory
    /\ queue = <<>> /\ running = FALSE /\ stream = "none" /\ cb = "idle"
    /\ enq = <<>> /\ applied = <<>> /\ last_cb = "none" /\ eng = FMEngine
    /\ InitEnvIdle /\ slog = NoStreamLog /\ InitLockIdle
    /\ InitFilterIdle /\ conv = NoConv /\ fmr = NoFMRender /\ app = NoApp
    /\ loops = <<>> /\ main = "idle" /\ clog = NoClockLog
    /\ \E swing \in {0, 500}, n_steps \in {3, 16} :
          clock = [Clock_start(Clock(120), 1) EXCEPT !.swing = swing, !.n_steps = n_steps]
    /\ \E began \in StartTimes :
          dl = [pc |-> "while", now |-> began, next_tick |-> began, step |-> 0,
                start |-> began, sum |-> R0, k |-> 0, sleeps |-> 0, skips |-> 0]

DeadlineFrame ==
    UNCHANGED <<core, envVars, loops, main, clog, slog, lockVars, svf, flog, conv, fmr, app>>

\* while self._running: step = self._step, and the callbacks run.
deadline_callbacks ==
    \E took \in CallbackTimes :
        /\ dl.pc = "while"
        /\ clock.running
        /\ dl.k < MaxDeadlineTicks
        /\ dl' = [dl EXCEPT !.pc = "advance", !.step = clock.step, !.now = RAdd(@, took)]
        /\ UNCHANGED clock
        /\ DeadlineFrame

\* duration, _step and next_tick are computed and the sleep is decided.
deadline_advance ==
    LET duration == Clock_step_duration(clock, dl.step)
        next_tick == Clock_next_tick(dl.next_tick, dl.now, duration)
        sleeps == Clock_sleeps(next_tick, dl.now)
    IN  /\ dl.pc = "advance"
        /\ clock' = [clock EXCEPT !.step = (dl.step + 1) % clock.n_steps]
        /\ dl' = [dl EXCEPT !.pc = IF sleeps THEN "sleep" ELSE "while",
                            !.next_tick = next_tick,
                            !.sum = RAdd(@, duration),
                            !.k = @ + 1,
                            !.skips = IF sleeps THEN @ ELSE @ + 1]
        /\ DeadlineFrame

\* time.sleep(sleep_time) returns at the deadline or a little after it.
deadline_sleep ==
    \E late \in WakeDelays :
        /\ dl.pc = "sleep"
        /\ dl' = [dl EXCEPT !.pc = "while", !.now = RAdd(dl.next_tick, late),
                            !.sleeps = @ + 1]
        /\ UNCHANGED clock
        /\ DeadlineFrame

\* stop() clears _running; the loop ends at its next test.
deadline_stop ==
    /\ clock.running
    /\ clock' = Clock_stop_begin(clock)
    /\ UNCHANGED dl
    /\ DeadlineFrame

deadline_exit ==
    /\ dl.pc = "while"
    /\ ~clock.running
    /\ dl' = [dl EXCEPT !.pc = "done"]
    /\ UNCHANGED clock
    /\ DeadlineFrame

NextDeadline ==
    \/ deadline_callbacks \/ deadline_advance \/ deadline_sleep
    \/ deadline_stop \/ deadline_exit

SpecDeadline == InitDeadline /\ [][NextDeadline]_vars

-----------------------------------------------------------------------------
(* One SubtractiveEngine with its arpeggiator: note_on, note_off, arp_tick,  *)
(* render_block and set_param of the arp's own parameters, called in any     *)
(* order.  The engine starts in any arp mode with one or two octave layers,  *)
(* as set_param("arp_mode") and set_param("arp_octaves") leave a new engine. *)

MaxArpCalls == 4

ArpParams ==
    {<<<<"a","r","p","_","m","o","d","e">>, 0>>, <<<<"a","r","p","_","m","o","d","e">>, 7000>>,
     <<<<"o","c","t","a","v","e">>, 1000>>}

InitArp ==
    /\ InitPool /\ InitHistory
    /\ queue = <<>> /\ running = FALSE /\ stream = "none" /\ cb = "idle"
    /\ enq = <<>> /\ applied = <<>> /\ last_cb = "none"
    /\ \E m \in 1..Len(ARP_MODES), arp_octaves \in 1..2 :
          eng = [SubtractiveEngine EXCEPT !.arp_mode = ARP_MODES[m],
                                          !.arp_octaves = arp_octaves]
    /\ InitAux

arp_set_param ==
    \E nv \in ArpParams :
        LET r == Sub_set_param(eng, nv[1], nv[2])
        IN  /\ eng' = r.val
            /\ last' = Call(EngineOp("set_param", 0, nv[1], nv[2]), r)
            /\ ParamFrame

\* At most MaxArpCalls calls are made.
NextArp ==
    \/ calls < MaxArpCalls /\ engine_note_on
    \/ calls < MaxArpCalls /\ engine_note_off
    \/ calls < MaxArpCalls /\ engine_arp_tick
    \/ calls < MaxArpCalls /\ engine_render_block
    \/ calls < MaxArpCalls /\ arp_set_param

SpecArp == InitArp /\ [][NextArp]_vars

-----------------------------------------------------------------------------
(* One FMEngine with render_block run sample by sample and operator by       *)
(* operator.  fmr holds the block in progress: env_blocks, the operators     *)
(* whose op_outputs entry for frame i is stored, each operator's _last_out,  *)
(* and what the last render_sample was given.  The engine starts with any of *)
(* the six algorithms, as set_param("algorithm") leaves a new engine.        *)

MaxFMCalls == 4

FMParams ==
    {<<<<"a","l","g","o","r","i","t","h","m">>, 3000>>,
     <<<<"o","p","0","_","f","e","e","d","b","a","c","k">>, 500>>,
     <<<<"o","p","1","_","f","e","e","d","b","a","c","k">>, 500>>,
     <<<<"o","p","3","_","f","e","e","d","b","a","c","k">>, 250>>,
     <<<<"o","p","1","_","l","e","v","e","l">>, 0>>}

NoRead == [op_idx |-> -1, sources |-> <<>>, total_mod |-> [mod_input |-> <<>>, self |-> R0]]

InitFM ==
    /\ InitPool /\ InitHistory
    /\ queue = <<>> /\ running = FALSE /\ stream = "none" /\ cb = "idle"
    /\ enq = <<>> /\ applied = <<>> /\ last_cb = "none"
    /\ \E a \in 0..(N_ALGORITHMS - 1) : eng = [FMEngine EXCEPT !.algorithm = a]
    /\ InitEnvIdle /\ InitClockIdle /\ slog = NoStreamLog /\ InitLockIdle
    /\ InitFilterIdle /\ conv = NoConv /\ dl = NoDeadlines /\ app = NoApp
    /\ fmr = [pc |-> "out", n_frames |-> 0, i |-> 0, op_idx |-> 0, env_blocks |-> <<>>,
              stored |-> <<>>, last_out |-> [k \in 1..N_OPS |-> R0], read |-> NoRead,
              calls |-> 0]

FMFrame ==
    UNCHANGED <<voices, next_voice, queue, running, stream, cb, enq, applied, last_cb,
                last, poolHist, envVars, clockVars, slog, lockVars, svf, flog, conv, dl,
                app>>

FMCall == fmr.pc = "out" /\ fmr.calls < MaxFMCalls

\* FMEngine.note_on: every operator's note_on also clears its _last_out.
fm_note_on ==
    \E note \in EngineNotes :
        /\ FMCall
        /\ eng' = FM_note_on(eng, note, 100)
        /\ fmr' = [fmr EXCEPT !.last_out = [k \in 1..N_OPS |-> R0], !.calls = @ + 1]
        /\ FMFrame

fm_note_off ==
    /\ FMCall
    /\ eng' = FM_note_off(eng)
    /\ fmr' = [fmr EXCEPT !.calls = @ + 1]
    /\ FMFrame

fm_set_param ==
    \E nv \in FMParams :
        /\ FMCall
        /\ eng' = FM_set_param(eng, nv[1], nv[2]).val
        /\ fmr' = [fmr EXCEPT !.calls = @ + 1]
        /\ FMFrame

\* render_block up to the sample loop: the envelopes are rendered for the
\* whole block and op_outputs is all zeros.
fm_render_begin ==
    \E n_frames \in 1..MaxFrames :
        /\ FMCall
        /\ eng' = FM_render_block(eng, n_frames)
        /\ fmr' = [fmr EXCEPT
                     !.pc = "sample", !.n_frames = n_frames, !.i = 0, !.op_idx = 0,
                     !.env_blocks = [k \in 1..N_OPS |->
                                        [f \in 1..n_frames |->
                                            ADSR_render_block(eng.ops[k].env, f).level]],
                     !.stored = [k \in 1..N_OPS |-> [f \in 1..n_frames |-> None]],
                     !.calls = @ + 1]
        /\ FMFrame

\* One turn of for op_idx in range(N_OPS), and the loops' ends after the last
\* operator and the last frame.  An op_outputs entry not yet stored reads 0.
fm_render_sample ==
    /\ fmr.pc = "sample"
    /\ LET i == fmr.i
           op_idx == fmr.op_idx
           entry == ALGORITHMS[eng.algorithm + 1][op_idx + 1]
           sources == [k \in 1..Len(entry.mod_sources) |->
                          LET src == entry.mod_sources[k]
                          IN  [src |-> src, stored |-> fmr.stored[src + 1][i + 1] # None]]
           mod_input == [k \in 1..Len(sources) |->
                            IF sources[k].stored
                            THEN fmr.stored[sources[k].src + 1][i + 1][1] ELSE R0]
           r == FMOperator_render_sample(eng.ops[op_idx + 1], fmr.last_out[op_idx + 1],
                                         mod_input, fmr.env_blocks[op_idx + 1][i + 1])
           last_op == op_idx + 1 = N_OPS
           last_frame == i + 1 = fmr.n_frames
       IN  fmr' = [fmr EXCEPT
                     !.read = [op_idx |-> op_idx, sources |-> sources,
                               total_mod |-> r.total_mod],
                     !.last_out[op_idx + 1] = r.sample,
                     !.stored[op_idx + 1][i + 1] = Some(r.sample),
                     !.op_idx = IF last_op THEN 0 ELSE op_idx + 1,
                     !.i = IF last_op /\ ~last_frame THEN i + 1 ELSE i,
                     !.pc = IF last_op /\ last_frame THEN "out" ELSE "sample"]
    /\ UNCHANGED eng
    /\ FMFrame

NextFM ==
    \/ fm_note_on \/ fm_note_off \/ fm_set_param
    \/ fm_render_begin \/ fm_render_sample

SpecFM == InitFM /\ [][NextFM]_vars

-----------------------------------------------------------------------------
(* VoicePool with held notes: a track's engine and its parameters changed,   *)
(* notes given to that track and auto-allocated, note-offs and renders.      *)

MaxHeldCalls == 5

held_note_on ==
    \E track_idx \in {None, Some(0)} : CallNoteOn(track_idx, 60, 100, MaxHeldCalls)

held_note_off ==
    \E track_idx \in {None, Some(0)} : CallNoteOff(track_idx, 60, MaxHeldCalls)

held_set_track_engine ==
    \E engine_name \in {"subtractive", "vector"} :
        CallSetTrackEngine(0, engine_name, MaxHeldCalls)

held_set_track_param ==
    \E c \in {<<<<"a","r","p","_","m","o","d","e">>, 1000>>,
              <<<<"a","m","p","_","s","u","s","t","a","i","n">>, 0>>,
              <<<<"o","p","0","_","s","u","s","t","a","i","n">>, 0>>} :
        CallSetTrackParam(0, c[1], c[2], MaxHeldCalls)

held_render == \E n_frames \in 1..MaxFrames : CallRender(n_frames, MaxHeldCalls)

NextHeld ==
    \/ held_note_on \/ held_note_off
    \/ held_set_track_engine \/ held_set_track_param
    \/ held_render

SpecHeld == Init /\ [][NextHeld]_vars

-----------------------------------------------------------------------------
(* app.py, sequencer/pattern.py, sequencer/track.py, sequencer/step.py *)

N_TRACKS == 4
N_STEPS == 16

Step == [active |-> FALSE, note |-> 60, velocity |-> 100]

Track(track_idx) ==
    [engine_name |-> "fm", steps |-> [k \in 1..N_STEPS |-> Step], muted |-> FALSE]

\* Track.step_at(idx), Pattern.track(idx)
Track_step_at(track, idx) == track.steps[(idx % N_STEPS) + 1]

Pattern == [tracks |-> [t \in 1..N_TRACKS |-> Track(t - 1)], n_steps |-> N_STEPS]

Pattern_track(pattern, idx) == pattern.tracks[(idx % N_TRACKS) + 1]

\* The App after __init__, with the Clock's _running and _step and the
\* window's state beside it.  playing and step stand for the Clock (its loop
\* calls the one registered callback and then advances _step); main is the
\* place of App.run's loop: "test" at while is_running(), "drain" in the
\* inner loop, "frame" before run_frame(), "done" after _shutdown().
\* handed, executed and ticks are history: the updates put on _ui_queue, the
\* update_playhead calls made with the thread that made them, the ticks.
App ==
    [pattern |-> Pattern, ui_queue |-> <<>>, playing |-> FALSE, step |-> 0,
     window |-> "running", main |-> "test",
     handed |-> <<>>, executed |-> <<>>, ticks |-> <<>>, edits |-> 0, stops |-> 0]

\* What one track's part of _on_step_tick puts on the audio queue.  No step
\* has parameter locks and no track has MIDI out enabled (nothing in the
\* application sets either).
App_track_events(pattern, track_idx, step_idx) ==
    LET track == Pattern_track(pattern, track_idx)
        s == Track_step_at(track, step_idx)
        prev_step == Track_step_at(track, (step_idx - 1) % pattern.n_steps)
    IN  IF track.muted THEN <<>>
        ELSE (IF prev_step.active THEN <<NoteOffEvent(Some(track_idx), prev_step.note)>>
              ELSE <<>>)
             \o (IF s.active THEN <<NoteOnEvent(Some(track_idx), s.note, s.velocity)>>
                 ELSE <<>>)

RECURSIVE App_tick_events(_, _, _)
App_tick_events(pattern, track_idx, step_idx) ==
    IF track_idx >= N_TRACKS THEN <<>>
    ELSE App_track_events(pattern, track_idx, step_idx)
         \o App_tick_events(pattern, track_idx + 1, step_idx)

\* An _on_step_tick that calls the window itself.
App_on_step_tick_calls_window(a, step_idx) ==
    [app |-> [a EXCEPT !.executed = Append(@, [idx |-> step_idx, by |-> "clock"]),
                       !.ticks = Append(@, step_idx)],
     events |-> App_tick_events(a.pattern, 0, step_idx)]

\* App._on_step_tick, run by the clock's thread: the audio events of the four
\* tracks, then the playhead update put on _ui_queue.
App_on_step_tick(a, step_idx) ==
    [app |-> [a EXCEPT !.ui_queue = Append(@, step_idx),
                       !.handed = Append(@, step_idx),
                       !.ticks = Append(@, step_idx)],
     events |-> App_tick_events(a.pattern, 0, step_idx)]

\* The note-offs of _on_stop: one for every step active now, track by track.
RECURSIVE App_stop_events(_, _, _)
App_stop_events(pattern, track_idx, k) ==
    IF track_idx >= N_TRACKS THEN <<>>
    ELSE IF k > N_STEPS THEN App_stop_events(pattern, track_idx + 1, 1)
    ELSE LET step == Pattern_track(pattern, track_idx).steps[k]
         IN  (IF step.active THEN <<NoteOffEvent(Some(track_idx), step.note)>> ELSE <<>>)
             \o App_stop_events(pattern, track_idx, k + 1)

MaxAppTicks == 3

\* The App's steps leave the pool, the stream and the other parts alone.
AppFrame ==
    UNCHANGED <<voices, next_voice, running, stream, cb, applied, last_cb, last, poolHist,
                eng, envVars, clockVars, slog, lockVars, svf, flog, conv, dl, fmr>>

AppPut(events) == queue' = queue \o events /\ enq' = enq \o events

\* _on_play: clock.start()
app_play ==
    /\ app.main # "done"
    /\ ~app.playing
    /\ app' = [app EXCEPT !.playing = TRUE]
    /\ AppPut(<<>>)
    /\ AppFrame

\* One tick of the clock's loop: the callback, then _step moves on.
app_tick ==
    /\ app.playing
    /\ Len(app.ticks) < MaxAppTicks
    /\ LET r == App_on_step_tick(app, app.step)
       IN  /\ app' = [r.app EXCEPT !.step = (app.step + 1) % N_STEPS]
           /\ AppPut(r.events)
    /\ AppFrame

\* _on_stop: clock.stop(), which also sets _step to 0, then the note-offs.
app_stop ==
    /\ app.main # "done"
    /\ app.stops < MaxAppTicks
    /\ app' = [app EXCEPT !.playing = FALSE, !.step = 0, !.stops = @ + 1]
    /\ AppPut(App_stop_events(app.pattern, 0, 1))
    /\ AppFrame

\* while self.window.is_running(): entered or left; _shutdown stops the clock.
ui_test ==
    /\ app.main = "test"
    /\ app' = IF app.window = "running" THEN [app EXCEPT !.main = "drain"]
              ELSE [app EXCEPT !.main = "done", !.playing = FALSE, !.step = 0]
    /\ AppPut(<<>>)
    /\ AppFrame

\* fn = self._ui_queue.get_nowait(); fn()
ui_update ==
    /\ app.main = "drain"
    /\ app.ui_queue # <<>>
    /\ app' = [app EXCEPT !.ui_queue = Tail(@),
                          !.executed = Append(@, [idx |-> Head(app.ui_queue), by |-> "main"])]
    /\ AppPut(<<>>)
    /\ AppFrame

\* get_nowait() raised Empty.
ui_empty ==
    /\ app.main = "drain"
    /\ app.ui_queue = <<>>
    /\ app' = [app EXCEPT !.main = "frame"]
    /\ AppPut(<<>>)
    /\ AppFrame

\* self.window.run_frame()
ui_run_frame ==
    /\ app.main = "frame"
    /\ app' = [app EXCEPT !.main = "test"]
    /\ AppPut(<<>>)
    /\ AppFrame

\* The user closes the window.
ui_close ==
    /\ app.window = "running"
    /\ app' = [app EXCEPT !.window = "closed"]
    /\ AppPut(<<>>)
    /\ AppFrame

InitApp ==
    /\ InitPool /\ InitHistory
    /\ queue = <<>> /\ running = TRUE /\ stream = "active" /\ cb = "idle"
    /\ enq = <<>> /\ applied = <<>> /\ last_cb = "none" /\ eng = FMEngine
    /\ InitEnvIdle /\ InitClockIdle /\ slog = NoStreamLog /\ InitLockIdle
    /\ InitFilterIdle /\ conv = NoConv /\ dl = NoDeadlines /\ fmr = NoFMRender
    /\ app = App

\* The main loop and the clock's thread, both scheduled fairly.
NextUI ==
    \/ app_play \/ app_tick \/ app_stop
    \/ ui_test \/ ui_update \/ ui_empty \/ ui_run_frame \/ ui_close

SpecUI ==
    /\ InitApp
    /\ [][NextUI]_vars
    /\ WF_vars(ui_test) /\ WF_vars(ui_update) /\ WF_vars(ui_empty) /\ WF_vars(ui_run_frame)

-----------------------------------------------------------------------------
(* The sequencer playing while the pattern is edited: the transport, the     *)
(* clock's ticks, the step buttons, the step note slider and the engine      *)
(* selector on one side, the render callback draining the queue on the       *)
(* other.                                                                    *)

MaxSeqEdits == 2
MaxSeqTicks == 2
MaxSeqStops == 1

\* What the user edits: steps 0 and 1 of track 0, the note a step is set to,
\* the engine chosen for track 0 or 1.
SeqTracks == {0}
SeqSteps == {0, 1}
SeqNotes == {62}
SeqEngineChanges == {<<0, "vector">>, <<1, "vector">>, <<1, "fm">>}

\* App._on_step_toggle: Step.toggle() of the step.
App_on_step_toggle(a, track_idx, step_idx) ==
    [a EXCEPT !.pattern.tracks[(track_idx % N_TRACKS) + 1].steps[(step_idx % N_STEPS) + 1].active = ~@]

\* SequencerView._set_step_note
Seq_set_step_note(a, t, s, val) ==
    [a EXCEPT !.pattern.tracks[(t % N_TRACKS) + 1].steps[(s % N_STEPS) + 1].note = val]

\* App._on_engine_change: Track.set_engine, then AudioEngine.set_engine.
App_on_engine_change(a, track_idx, engine_name) ==
    [app |-> [a EXCEPT !.pattern.tracks[(track_idx % N_TRACKS) + 1].engine_name = engine_name],
     events |-> <<SetEngineEvent(Some(track_idx), engine_name)>>]

SeqEdit ==
    /\ app.main # "done"
    /\ app.edits < MaxSeqEdits

seq_step_toggle ==
    \E track_idx \in SeqTracks, step_idx \in SeqSteps :
        /\ SeqEdit
        /\ app' = [App_on_step_toggle(app, track_idx, step_idx) EXCEPT !.edits = @ + 1]
        /\ AppPut(<<>>)
        /\ AppFrame

seq_set_step_note ==
    \E t \in SeqTracks, s \in SeqSteps, val \in SeqNotes :
        /\ SeqEdit
        /\ app' = [Seq_set_step_note(app, t, s, val) EXCEPT !.edits = @ + 1]
        /\ AppPut(<<>>)
        /\ AppFrame

seq_engine_change ==
    \E c \in SeqEngineChanges :
        /\ SeqEdit
        /\ LET r == App_on_engine_change(app, c[1], c[2])
           IN  /\ app' = [r.app EXCEPT !.edits = @ + 1]
               /\ AppPut(r.events)
        /\ AppFrame

seq_tick == Len(app.ticks) < MaxSeqTicks /\ app_tick

seq_stop == app.stops < MaxSeqStops /\ app_stop

NextSeq ==
    \/ app_play \/ seq_tick \/ seq_stop
    \/ seq_step_toggle \/ seq_set_step_note \/ seq_engine_change
    \/ callback_begin \/ callback_drain \/ callback_render

SpecSeq == InitApp /\ [][NextSeq]_vars

-----------------------------------------------------------------------------
(* The render callback with producers that may enqueue at any time, also     *)
(* while the callback drains.  The callback's thread is scheduled fairly;    *)
(* the histories enq and applied are not kept here.                          *)

MaxQueue == 2

DrainEvents ==
    {NoteOnEvent(Some(1), 62, 100), NoteOffEvent(None, 60),
     SetParamEvent(Some(0), <<"o","p","4","_","r","a","t","i","o">>, 2000)}

InitDrain ==
    /\ InitPool /\ InitHistory
    /\ queue = <<>> /\ running = TRUE /\ stream = "active" /\ cb = "idle"
    /\ enq = <<>> /\ applied = <<>> /\ last_cb = "none" /\ eng = FMEngine
    /\ InitAux

\* put_nowait from a producer thread; MaxQueue bounds the backlog only.
producer_put ==
    \E event \in DrainEvents :
        /\ Len(queue) < MaxQueue
        /\ queue' = Append(queue, event)
        /\ UNCHANGED <<voices, next_voice, running, stream, cb, enq, applied, last_cb,
                       last, poolHist, eng, aux>>

\* One turn of while True: get_nowait() returned an event, _handle_event ran.
drain_event ==
    /\ cb = "drain"
    /\ queue # <<>>
    /\ \E shuffle \in Event_shuffles(pool, Head(queue)) :
          LET r == handle_event(pool, Head(queue), shuffle)
          IN  /\ queue' = Tail(queue)
              /\ voices' = r.val.voices
              /\ next_voice' = r.val.next_voice
              /\ last' = Call(Head(queue), r)
              /\ IF r.ok
                 THEN UNCHANGED <<cb, stream, last_cb>>
                 ELSE /\ cb' = "idle"
                      /\ stream' = "aborted"
                      /\ last_cb' = "raised"
    /\ UNCHANGED <<running, enq, applied, poolHist, eng, aux>>

NextDrain ==
    \/ producer_put
    \/ callback_begin \/ drain_event \/ callback_render

\* The guard of the callback's last step, which changes vars whenever taken.
CanRender == cb = "drain" /\ queue = <<>>

\* The callback's thread is not starved: weak fairness of its entry, strong
\* fairness of both branches of its loop (that of the render branch written
\* out with the branch's guard).
SpecDrain ==
    /\ InitDrain /\ [][NextDrain]_vars
    /\ WF_vars(callback_begin)
    /\ SF_vars(drain_event)
    /\ (<>[](~CanRender) \/ []<><<callback_render>>_vars)

-----------------------------------------------------------------------------
(* The keys of each engine's parameter set: what get_params() returns *)

FM_get_params_keys ==
    {<<"a","l","g","o","r","i","t","h","m">>}
    \cup {<<"o", "p", DigitChars[i + 1], "_">> \o attr :
            i \in 0..N_OPS - 1,
            attr \in {<<"r","a","t","i","o">>, <<"l","e","v","e","l">>, <<"f","e","e","d","b","a","c","k">>, <<"a","t","t","a","c","k">>, <<"d","e","c","a","y">>, <<"s","u","s","t","a","i","n">>, <<"r","e","l","e","a","s","e">>}}

Vector_get_params_keys ==
    {<<"o","s","c","_","a">>, <<"o","s","c","_","b">>, <<"o","s","c","_","c">>, <<"o","s","c","_","d">>, <<"x","y","_","x">>, <<"x","y","_","y">>, <<"l","f","o","_","r","a","t","e">>, <<"l","f","o","_","d","e","p","t","h">>,
     <<"f","i","l","t","e","r","_","c","u","t","o","f","f">>, <<"f","i","l","t","e","r","_","r","e","s">>, <<"f","i","l","t","e","r","_","m","o","d","e">>,
     <<"a","t","t","a","c","k">>, <<"d","e","c","a","y">>, <<"s","u","s","t","a","i","n">>, <<"r","e","l","e","a","s","e">>}

Sub_get_params_keys ==
    {<<"o","s","c","1","_","w","a","v","e">>, <<"o","s","c","2","_","w","a","v","e">>, <<"o","s","c","_","m","i","x">>, <<"d","e","t","u","n","e">>, <<"o","c","t","a","v","e">>,
     <<"f","i","l","t","e","r","_","c","u","t","o","f","f">>, <<"f","i","l","t","e","r","_","r","e","s">>, <<"f","i","l","t","e","r","_","m","o","d","e">>, <<"f","i","l","t","e","r","_","e","n","v","_","a","m","t">>,
     <<"a","m","p","_","a","t","t","a","c","k">>, <<"a","m","p","_","d","e","c","a","y">>, <<"a","m","p","_","s","u","s","t","a","i","n">>, <<"a","m","p","_","r","e","l","e","a","s","e">>,
     <<"f","i","l","t","_","a","t","t","a","c","k">>, <<"f","i","l","t","_","d","e","c","a","y">>, <<"f","i","l","t","_","s","u","s","t","a","i","n">>, <<"f","i","l","t","_","r","e","l","e","a","s","e">>,
     <<"a","r","p","_","m","o","d","e">>, <<"a","r","p","_","o","c","t","a","v","e","s">>}

Engine_get_params_keys(e) ==
    CASE e.kind = "fm" -> FM_get_params_keys
      [] e.kind = "vector" -> Vector_get_params_keys
      [] e.kind = "subtractive" -> Sub_get_params_keys

-----------------------------------------------------------------------------
(* Properties *)

\* The step is a direct call of the given kind (pool or engine level).
IsCall(kind) == calls' = calls + 1 /\ last'.op.kind = kind

\* The step is the drain loop handling the event at the head of the queue.
IsDrain == cb = "drain" /\ queue # <<>> /\ queue' = Tail(queue)

\* C1: every event put on the queue is applied to the pool exactly once and in
\* put order, and a callback renders only when everything put before has been
\* applied: at every moment the events put so far are the events applied so
\* far followed by the events still queued.
C1_EventsAppliedOnceInOrder == enq = applied \o queue

\* C2: whatever events are queued, no callback is left by an exception:
\* every callback that has ended delivered its block.
C2_CallbackAlwaysRenders == last_cb # "raised"

\* C3: an event with an explicit voice index k is never rejected and does
\* exactly what the same event with index k mod 4 does.
C3_ExplicitIndexWraps ==
    [][(IsDrain /\ Head(queue).track_idx # None) =>
          LET event == Head(queue)
              wrapped == [event EXCEPT !.track_idx = Some(event.track_idx[1] % N_VOICES)]
          IN  /\ last'.ok
              /\ \E shuffle \in Event_shuffles(pool, wrapped) :
                    pool' = handle_event(pool, wrapped, shuffle).val]_vars

\* C4: set_param with a name that is no key of the engine raises nothing and
\* leaves the engine as it was.
C4_UnknownParamIsNoOp ==
    [][(IsCall("set_param") /\ last'.op.param \notin Engine_get_params_keys(eng)) =>
          (last'.ok /\ eng' = eng)]_vars

\* The voices that are free / the lowest free voice (0-based).
FreeVoices == {k \in 0..N_VOICES - 1 : Voice_is_free(voices[k + 1])}
LowestFree == CHOOSE k \in FreeVoices : \A j \in FreeVoices : k <= j
IsAutoNoteOn == IsCall("note_on") /\ last'.op.track_idx = None
\* Voice k (0-based) now holds the note of the last note_on and is active.
Triggered(k) ==
    /\ voices'[k + 1].current_note = Some(last'.op.note)
    /\ voices'[k + 1].active

\* C5: while a voice is free an auto-allocated note_on goes to the lowest free
\* voice, touches no other voice and leaves the cursor alone; the cursor moves
\* only in an auto-allocated note_on that found no free voice.
C5_AutoTakesLowestFree ==
    [][/\ (IsAutoNoteOn /\ FreeVoices # {}) =>
             /\ Triggered(LowestFree)
             /\ \A k \in 0..N_VOICES - 1 : k # LowestFree => voices'[k + 1] = voices[k + 1]
             /\ next_voice' = next_voice
       /\ next_voice' # next_voice => (IsAutoNoteOn /\ FreeVoices = {})]_vars

C5_Witness ==
    /\ last.op.kind = "note_on" /\ last.op.track_idx = None /\ last.op.note = 62
    /\ steals = <<>>
    /\ voices[1].current_note = Some(60) /\ ~Voice_is_free(voices[1])
    /\ voices[2].current_note = Some(62) /\ voices[2].active
    /\ voices[3].current_note = None

\* C6: from the fresh pool, auto-allocated note_ons (renders may come in
\* between, nothing else) get voices 0, 1, 2, 3 and the fifth steals voice 0;
\* the cursor is 0 until that steal and 1 after it.
C6_FirstFiveAllocations ==
    only_auto =>
        /\ \A i \in 1..Len(autos) : i <= 5 => autos[i] = <<0, 1, 2, 3, 0>>[i]
        /\ Len(autos) <= 4 => next_voice = 0 /\ steals = <<>>
        /\ Len(autos) = 5 => next_voice = 1 /\ steals = <<0>>

C6_Witness == only_auto /\ Len(autos) = 5 /\ steals = <<0>>

Releasing(v) ==
    LET e == v.engine
        envs == CASE e.kind = "fm" -> {e.ops[i].env : i \in 1..N_OPS}
                  [] e.kind = "vector" -> {e.env}
                  [] e.kind = "subtractive" -> {e.amp_env, e.filt_env}
    IN  \A x \in envs : x.state = "RELEASE"

\* C8: note_off(i, n) releases voice i mod 4 if it holds n and changes no other
\* voice, not even one that holds n too.
C8_TargetedNoteOff ==
    [][(IsCall("note_off") /\ last'.op.track_idx # None) =>
          LET k == last'.op.track_idx[1] % N_VOICES
          IN  /\ \A j \in 0..N_VOICES - 1 : j # k => voices'[j + 1] = voices[j + 1]
              /\ voices'[k + 1] =
                    IF voices[k + 1].current_note = Some(last'.op.note)
                    THEN Voice_note_off(voices[k + 1]) ELSE voices[k + 1]
              /\ next_voice' = next_voice]_vars

\* Voices 0 and 2 both hold note 60; note_off(2, 60) has released voice 2 only.
C8_Witness ==
    /\ last.op = NoteOffEvent(Some(2), 60)
    /\ voices[1].current_note = Some(60) /\ voices[3].current_note = Some(60)
    /\ Releasing(voices[3])
    /\ Engine_is_active(voices[1].engine) /\ ~Releasing(voices[1])

\* C9: note_off(None, n) releases every voice that holds n and changes no
\* voice that holds another note.
C9_BroadcastNoteOff ==
    [][(IsCall("note_off") /\ last'.op.track_idx = None) =>
          /\ \A k \in 1..N_VOICES :
                voices'[k] = IF voices[k].current_note = Some(last'.op.note)
                             THEN Voice_note_off(voices[k]) ELSE voices[k]
          /\ next_voice' = next_voice]_vars

\* Voice 2 was given 60 and then re-triggered with 62 (its held notes show
\* both); note_off(None, 60) released voice 0 and left voice 2 sounding.
C9_Witness ==
    /\ last.op = NoteOffEvent(None, 60)
    /\ voices[1].current_note = Some(60) /\ Releasing(voices[1])
    /\ voices[3].current_note = Some(62)
    /\ voices[3].engine.kind = "subtractive"
    /\ voices[3].engine.held_notes = <<60, 62>>
    /\ Engine_is_active(voices[3].engine) /\ ~Releasing(voices[3])

\* C10: change_engine with the voice's current engine name changes nothing;
\* with another name the voice gets a newly constructed engine of that kind,
\* no note and no active flag, and is free.
C10_ChangeEngine ==
    [][(IsCall("set_engine") /\ last'.ok) =>
          LET k == PyIndex(last'.op.track_idx[1], N_VOICES) + 1
              name == last'.op.engine_name
              fresh == CASE name = "fm" -> FMEngine
                         [] name = "vector" -> VectorEngine
                         [] name = "subtractive" -> SubtractiveEngine
          IN  /\ \A j \in 1..N_VOICES : j # k => voices'[j] = voices[j]
              /\ name = voices[k].engine_name => voices'[k] = voices[k]
              /\ name # voices[k].engine_name =>
                    /\ voices'[k].engine = fresh
                    /\ voices'[k].engine.kind = name
                    /\ voices'[k].engine_name = name
                    /\ voices'[k].current_note = None
                    /\ ~voices'[k].active
                    /\ Voice_is_free(voices'[k])]_vars

\* set_track_engine(1, "vector") on the vector voice while it sounds note 62.
C10_Witness ==
    /\ last.op = SetEngineEvent(Some(1), "vector") /\ last.ok
    /\ voices[2].engine_name = "vector"
    /\ voices[2].current_note = Some(62) /\ voices[2].active
    /\ Engine_is_active(voices[2].engine)

\* The envelopes engine e owns.
EngineEnvs(e) ==
    CASE e.kind = "fm" -> {e.ops[i].env : i \in 1..N_OPS}
      [] e.kind = "vector" -> {e.env}
      [] e.kind = "subtractive" -> {e.amp_env, e.filt_env}

\* C11: whatever note_on, note_off, renders (ticks) and set_param calls an
\* engine has been given, the level of each of its envelopes is within [0, 1].
C11_LevelWithinUnit ==
    \A x \in EngineEnvs(eng) : RLeq(R0, x.level) /\ RLeq(x.level, R1)

\* The step is a note_on / a note_off on the single envelope.
IsEnvCall(kind) == elog'.calls = elog.calls + 1 /\ elog'.op = kind

\* C12: note_on enters Attack and note_off, outside Idle, enters Release with
\* the release start level equal to the current level; neither changes the
\* level, and note_off in Idle changes nothing.
C12_NoteOnOffKeepLevel ==
    [][/\ IsEnvCall("note_on") =>
             (env'.level = env.level /\ env'.state = "ATTACK")
       /\ (IsEnvCall("note_off") /\ env.state # "IDLE") =>
             /\ env'.level = env.level
             /\ env'.state = "RELEASE"
             /\ env'.release_level = env.level
       /\ (IsEnvCall("note_off") /\ env.state = "IDLE") => env' = env]_vars

\* A note_on given while the level is above 0 and below 1: Attack resumes there.
C12_Witness ==
    /\ elog.op = "note_on" /\ elog.run = "dirty"
    /\ env.state = "ATTACK"
    /\ env.level # R0 /\ env.level # R1

\* The tick counts of one note against the sample counts of its times.
StageTicks(exact) ==
    LET A == time_to_samples(env.attack)
        D == time_to_samples(env.decay)
        R == time_to_samples(env.release)
        t == elog.ticks
        total == t["ATTACK"] + t["DECAY"] + t["SUSTAIN"] + t["RELEASE"]
        want == A + D + t["SUSTAIN"] + R
    IN  /\ env.state = "ATTACK" => t["ATTACK"] < A /\ t["DECAY"] = 0
        /\ env.state = "DECAY" => t["ATTACK"] = A /\ t["DECAY"] < D
        /\ env.state = "SUSTAIN" => t["ATTACK"] = A /\ t["DECAY"] = D
        /\ env.state = "RELEASE" => t["ATTACK"] = A /\ t["DECAY"] = D /\ t["RELEASE"] < R
        /\ env.state = "IDLE" =>
              /\ elog.run = "released"
              /\ t["RELEASE"] = R
              /\ IF exact THEN total = want ELSE total - want \in {-1, 0, 1}

C14_StopEndsLoop ==
    /\ ~clog.late
    /\ clog.stopped => clock.step = 0

\* C15: at most one thread is inside _run at any time.
C15_OneLoopAlive ==
    Cardinality({t \in 1..Len(loops) : loops[t].pc # "done"}) <= 1

\* C16: the step index a callback is called with is below n_steps as it is at
\* the moment of the call.
C16_StepIndexInRange ==
    clog.fire # <<>> => clog.fire[1] \in 0..clog.fire[2] - 1

InSeq(x, seq) == \E i \in 1..Len(seq) : seq[i] = x

\* C17: when a turn of the loop has gone through its callbacks, every
\* callback that stayed registered from the beginning of the turn has been
\* called in that turn.
C17_AllCallbacksEachTick ==
    \A t \in 1..Len(loops) :
        loops[t].pc = "after" =>
            \A f \in StepCallbacks : InSeq(f, loops[t].regs) => InSeq(f, loops[t].seen)

\* The duration the swing rule gives step k: base x (1 + 0.33 x swing) for an
\* even k, base x (1 - 0.33 x swing) for an odd one, base being 60/bpm/4.
SwingRule(k) ==
    LET base == Rat(60, clock.bpm * 4)
        skew == Rat(33 * clock.swing, 100 * 1000)
    IN  IF k % 2 = 0 THEN RMul(base, RAdd(R1, skew)) ELSE RMul(base, RSub(R1, skew))

\* Both steps of clog.durs last what the swing rule says; at 120 bpm and swing
\* 0.5 that is 0.125 x 1.165 and 0.125 x 0.835 seconds.
DursFollowRule ==
    \A i \in 1..Len(clog.durs) :
        /\ clog.durs[i][2] = SwingRule(clog.durs[i][1])
        /\ (clock.bpm = 120 /\ clock.swing = 500) =>
              clog.durs[i][2] = IF clog.durs[i][1] % 2 = 0 THEN Rat(145625, 1000000)
                                ELSE Rat(104375, 1000000)

PairSum == RAdd(clog.durs[1][2], clog.durs[2][2])
TwoBase == Rat(2 * 60, clock.bpm * 4)

StreamCalled(op) == slog'.life = Append(slog.life, op)
LastStreamCalls(n) == SubSeq(slog.life, Len(slog.life) - n + 1, Len(slog.life))

\* C19: the device never holds two streams open.  When stop() has returned
\* the stream is stopped and closed, no callback is in progress and the engine
\* is not running; a start() that returns right after it has opened and
\* started one new stream.  A stop() with nothing started (before any start,
\* or after a stop) changes nothing, and a start() while running opens no
\* stream.
C19_StopClosesStream ==
    /\ [](/\ slog.open \in {0, 1}
          /\ (slog.open = 1) <=> (stream # "none")
          /\ (Len(slog.life) >= 1 /\ LastStreamCalls(1) = <<"stop">>) =>
                (~running /\ stream = "none" /\ slog.open = 0 /\ cb = "idle")
          /\ (Len(slog.life) >= 2 /\ LastStreamCalls(2) = <<"stop", "start">>) =>
                (running /\ stream = "active" /\ slog.open = 1))
    /\ [][(StreamCalled("stop") /\ ~running /\ stream = "none") =>
              (~running' /\ stream' = "none" /\ slog'.open = slog.open
               /\ UNCHANGED <<core, envVars, clockVars, lockVars>>)]_vars
    /\ [][(StreamCalled("start") /\ running) =>
              (running' /\ stream' = stream /\ slog'.open = slog.open)]_vars

\* start, start again while running, stop, stop again, and a new start.
C19_Witness ==
    /\ slog.life = <<"start", "start", "stop", "stop", "start">>
    /\ stream = "active"

InsideLock(t) == lk.th[t].pc \in {"begin", "half", "render", "release"}

\* The guards of the steps of a call: a thread inside the with block runs on,
\* a thread at its entry goes in when the lock lets it.
CanStep(t) == InsideLock(t) \/ (lk.th[t].pc = "wait" /\ Lock_free(lk))
\* C20: at most one thread is inside a method's with block, and it holds the
\* lock; render never renders a voice another call has changed in part; every
\* call leaves the pool as that method leaves it when run alone; and while a
\* call is unfinished some thread can take its next step.
C20_PoolCallsExclusive ==
    /\ Cardinality({t \in Threads : InsideLock(t)}) <= 1
    /\ \A t \in Threads : InsideLock(t) <=> lk.owner = Some(t)
    /\ ~llog.mixed
    /\ ~llog.torn
    /\ (\E t \in Threads : lk.th[t].pc # "out") => \E t \in Threads : CanStep(t)

\* render waits at the lock while a note_on has set the voice's note and has
\* not yet triggered its engine.
C20_Witness ==
    \E t, u \in Threads :
        /\ lk.th[t].pc = "half" /\ lk.th[t].op.kind = "note_on"
        /\ lk.th[u].pc = "wait" /\ lk.th[u].op.kind = "render"

\* The cutoff limited to 20 Hz .. 0.49 x 44100 Hz = 21609 Hz.
Limited(cutoff) ==
    IF cutoff[1] < 20 * cutoff[2] THEN <<20, 1>>
    ELSE IF cutoff[1] > 21609 * cutoff[2] THEN <<21609, 1>>
    ELSE cutoff

\* C21: every render filters with the stored cutoff limited to 20..21609 Hz
\* and leaves the stored cutoff as it was; so after cutoffs above 21609 Hz
\* were assigned, however many times and with however many renders between,
\* the effective cutoff is 21609 Hz.
C21_CutoffLimitedEachRender ==
    /\ [](flog.fc # <<>> => flog.fc = Limited(svf.cutoff))
    /\ []((flog.sets >= 1 /\ flog.fc # <<>>) => flog.fc = <<21609, 1>>)
    /\ [][flog'.renders = flog.renders + 1 =>
              (svf' = svf /\ flog'.fc = Limited(svf.cutoff))]_vars

\* Two cutoffs above the limit were assigned and a block rendered after each.
C21_Witness ==
    /\ flog.sets = 2 /\ flog.renders = 2
    /\ flog.fc = <<21609, 1>>
    /\ svf.cutoff = <<30000, 1>>

IsEnvTick == elog'.calls = elog.calls /\ elog'.op = "tick"

\* C22: a tick keeps the state or moves Attack to Decay with the level at 1,
\* Decay to Sustain with the level at the sustain level, Release to Idle with
\* the level at 0, and never leaves Sustain or Idle; note_off moves every
\* state but Idle to Release and leaves Idle; note_on moves every state to
\* Attack.
C22_EnvelopeEdges ==
    [][/\ IsEnvTick =>
             \/ env'.state = env.state
             \/ env.state = "ATTACK" /\ env'.state = "DECAY" /\ env'.level = R1
             \/ env.state = "DECAY" /\ env'.state = "SUSTAIN" /\ env'.level = Milli(env.sustain)
             \/ env.state = "RELEASE" /\ env'.state = "IDLE" /\ env'.level = R0
       /\ (IsEnvTick /\ env.state \in {"SUSTAIN", "IDLE"}) => env'.state = env.state
       /\ IsEnvCall("note_off") =>
             env'.state = IF env.state = "IDLE" THEN "IDLE" ELSE "RELEASE"
       /\ IsEnvCall("note_on") => env'.state = "ATTACK"]_vars

\* A note went round the whole cycle: held through Attack, Decay and Sustain,
\* released, and back in Idle; and a note_off was then given in Idle.
C22_Witness ==
    /\ elog.run = "released" /\ env.state = "IDLE"
    /\ elog.ticks["DECAY"] >= 2 /\ elog.ticks["RELEASE"] >= 2
    /\ elog.op = "note_off"

\* round(n / d) as Python rounds: to the nearest integer, a half to the even
\* neighbour.
PyRound(n, d) ==
    LET floor == IF n >= 0 THEN n \div d ELSE -((-n + d - 1) \div d)
        twice == 2 * (n - floor * d)
    IN  IF twice < d THEN floor
        ELSE IF twice > d THEN floor + 1
        ELSE IF floor % 2 = 0 THEN floor ELSE floor + 1

\* C23: the sample count of a time is max(1, round(seconds x sample_rate)).
C23_RoundsToNearest ==
    conv.samples # <<>> =>
        conv.samples[1] = Max(1, PyRound(conv.seconds * SAMPLE_RATE, 1000))

\* C24: every deadline is the time _run began at plus the sum of the step
\* durations so far, whatever the callbacks and the wake-ups took; the loop
\* sleeps only before a deadline still ahead, and when the deadline computed
\* has passed it goes to the next tick with no time spent.
C24_DeadlinesFromStart ==
    /\ [](/\ dl.next_tick = RAdd(dl.start, dl.sum)
          /\ dl.pc = "sleep" => ~RLeq(dl.next_tick, dl.now))
    /\ [][dl'.k = dl.k + 1 =>
             /\ dl'.next_tick = RAdd(dl.next_tick, Clock_step_duration(clock, dl.step))
             /\ RLeq(dl'.next_tick, dl.now) => (dl'.pc = "while" /\ dl'.now = dl.now)]_vars

\* Three ticks with swing: after one the loop slept, after another the
\* deadline had passed and it did not, and the time is behind the deadline.
C24_Witness ==
    /\ dl.k = 3 /\ dl.sleeps >= 1 /\ dl.skips >= 1
    /\ clock.swing = 500
    /\ dl.pc = "while" /\ ~RLeq(dl.now, dl.next_tick)

\* C25: every callback that has begun its drain goes on to render and return,
\* whatever the producers do meanwhile.
C25_CallbackReachesRender == (cb = "drain") ~> (cb = "idle")

\* The step is a call of the engine's method kind.
EngineCalled(kind) == calls' = calls + 1 /\ last'.op.kind = kind

NoDuplicates(notes) == \A i, j \in 1..Len(notes) : notes[i] = notes[j] => i = j

\* C26: the held-note list never holds a note twice; note_on adds the note at
\* the end when it is not yet held and leaves the list as it is otherwise; the
\* list is empty after note_off; no other call touches it.
C26_HeldNotesOrderedSet ==
    /\ [](NoDuplicates(eng.held_notes))
    /\ [][/\ EngineCalled("note_on") =>
                eng'.held_notes =
                    IF \E i \in 1..Len(eng.held_notes) : eng.held_notes[i] = last'.op.note
                    THEN eng.held_notes
                    ELSE eng.held_notes \o <<last'.op.note>>
          /\ EngineCalled("note_off") => eng'.held_notes = <<>>
          /\ ~(EngineCalled("note_on") \/ EngineCalled("note_off")) =>
                eng'.held_notes = eng.held_notes]_vars

\* 62 arrived first, then 60, then 62 once more.
C26_Witness ==
    /\ eng.held_notes = <<62, 60>>
    /\ last.op.kind = "note_on" /\ last.op.note = 62

\* seq is the notes of held in ascending order, once per octave layer, layer j
\* raised by 12 x j semitones.
IsLayers(seq, held, arp_octaves) ==
    LET n == Len(held)
    IN  /\ Len(seq) = n * arp_octaves
        /\ {seq[i] : i \in 1..n} = {held[i] : i \in 1..n}
        /\ \A i \in 1..(n - 1) : seq[i] < seq[i + 1]
        /\ \A j \in 0..(arp_octaves - 1) : \A i \in 1..n : seq[j * n + i] = seq[i] + 12 * j

\* seq holds each note of each layer as often as the layers hold it.
SameEntries(seq, held, arp_octaves) ==
    /\ Len(seq) = Len(held) * arp_octaves
    /\ \A k \in 1..Len(seq) :
          Cardinality({i \in 1..Len(seq) : seq[i] = seq[k]}) =
          Cardinality({ji \in (0..(arp_octaves - 1)) \X (1..Len(held)) :
                          held[ji[2]] + 12 * ji[1] = seq[k]})

Reversed(seq) == [i \in 1..Len(seq) |-> seq[Len(seq) + 1 - i]]

\* note_on in an arp mode leaves both envelopes and the frequency alone and
\* puts the cursor at 0.
NoteOnSilent ==
    /\ eng'.amp_env = eng.amp_env
    /\ eng'.filt_env = eng.filt_env
    /\ eng'.note_freq = eng.note_freq
    /\ eng'.arp_index = 0

\* C27 as stated: in every arp mode note_on leaves the sequence as the sorted
\* layers.
C27_NoteOnRebuildsSorted ==
    [][(EngineCalled("note_on") /\ eng.arp_mode # "off") =>
          /\ NoteOnSilent
          /\ IsLayers(eng'.arp_notes, eng'.held_notes, eng.arp_octaves)]_vars

\* C27: with the arp mode not off, note_on triggers no envelope, keeps the
\* frequency, puts the cursor at 0 and rebuilds the sequence from the sorted
\* layers: as built in the modes up and chord, reversed in the mode down, in
\* some order of the same entries in the mode random.
C27_NoteOnRebuildsPerMode ==
    [][(EngineCalled("note_on") /\ eng.arp_mode # "off") =>
          /\ NoteOnSilent
          /\ eng.arp_mode \in {"up", "chord"} =>
                IsLayers(eng'.arp_notes, eng'.held_notes, eng.arp_octaves)
          /\ eng.arp_mode = "down" =>
                IsLayers(Reversed(eng'.arp_notes), eng'.held_notes, eng.arp_octaves)
          /\ eng.arp_mode = "random" =>
                SameEntries(eng'.arp_notes, eng'.held_notes, eng.arp_octaves)]_vars

\* Two held notes and two layers in the mode down, after the envelopes of an
\* earlier tick have run on: note_on left them where they were.
C27_Witness ==
    /\ last.op.kind = "note_on"
    /\ eng.arp_mode = "down"
    /\ eng.arp_notes = <<74, 72, 62, 60>>
    /\ eng.arp_index = 0
    /\ eng.amp_env.state # "IDLE"

\* C28: an arp_tick in an arp mode with a sequence triggers the note at the
\* cursor and moves the cursor on by one, from the last entry to 0; the cursor
\* is always a position of the sequence; with the mode off or no sequence
\* arp_tick changes nothing.
C28_ArpTickCycles ==
    /\ [](eng.arp_notes # <<>> => eng.arp_index \in 0..(Len(eng.arp_notes) - 1))
    /\ [][EngineCalled("arp_tick") =>
             IF eng.arp_mode # "off" /\ eng.arp_notes # <<>>
             THEN /\ eng'.note_freq = eng.arp_notes[eng.arp_index + 1] + eng.octave * 12
                  /\ eng'.amp_env = ADSR_note_on(eng.amp_env)
                  /\ eng'.filt_env = ADSR_note_on(eng.filt_env)
                  /\ eng'.arp_index = IF eng.arp_index + 1 = Len(eng.arp_notes) THEN 0
                                      ELSE eng.arp_index + 1
                  /\ eng'.arp_notes = eng.arp_notes
                  /\ eng'.held_notes = eng.held_notes
             ELSE eng' = eng]_vars

\* The tick at the last of two entries: that entry sounds, the cursor is at 0.
C28_Witness ==
    /\ last.op.kind = "arp_tick"
    /\ Len(eng.arp_notes) = 2
    /\ eng.arp_index = 0
    /\ eng.note_freq = eng.arp_notes[2] + eng.octave * 12
    /\ eng.amp_env.state = "ATTACK"

C30_OnlyOp0SelfModulates ==
    fmr.read.op_idx \in 1..(N_OPS - 1) => fmr.read.total_mod.self = R0

\* C31: the table's routing of the engine's algorithm is the routing its
\* diagram draws, edges and carriers, and what an operator reads at render
\* is what the diagram feeds it.
C31_TableImplementsDiagrams ==
    /\ FM_edges(eng.algorithm) = DIAGRAMS[eng.algorithm + 1].edges
    /\ FM_carriers(eng.algorithm) = DIAGRAMS[eng.algorithm + 1].carriers
    /\ fmr.read.op_idx >= 0 =>
          {fmr.read.sources[k].src : k \in 1..Len(fmr.read.sources)} =
          {e[1] : e \in {d \in DIAGRAMS[eng.algorithm + 1].edges : d[2] = fmr.read.op_idx}}

\* Operator op of algorithm a sounds: it is a carrier, or an operator that
\* reads its output sounds (chains are at most N_OPS long).
RECURSIVE Sounds(_, _, _)
Sounds(a, op, depth) ==
    \/ op \in FM_carriers(a)
    \/ /\ depth > 0
       /\ \E e \in FM_edges(a) : e[1] = op /\ Sounds(a, e[2], depth - 1)

\* C39: the engine's algorithm has a carrier, and every operator render_block
\* computes is a carrier or feeds one, directly or through other operators.
C39_NoOutputDiscarded ==
    /\ FM_carriers(eng.algorithm) # {}
    /\ \A op \in 0..(N_OPS - 1) : Sounds(eng.algorithm, op, N_OPS)
    /\ fmr.read.op_idx >= 0 => Sounds(eng.algorithm, fmr.read.op_idx, N_OPS)

C33_HeldVoiceNotFree ==
    [][(calls' = calls + 1 /\ last'.op.kind = "note_on" /\ last'.op.track_idx = None) =>
          LET t == Pool_allocate(pool)
          IN  holding[t.voice + 1] =>
                 (t.stolen /\ \A k \in 1..N_VOICES : ~Voice_is_free(voices[k]))]_vars

\* C34: while no note_on arrives, an envelope that entered Release is Idle
\* once release_samples ticks have been made since, whatever note_off calls
\* came in between: it is never found in Release with that many ticks made.
C34_ReleaseEndsInTime ==
    env.state = "RELEASE" => elog.rel < time_to_samples(env.release)

\* C35: the first step callback entered after a reset() that was made while
\* the clock runs has returned is given step index 0.
C35_ResetNotLost ==
    clog.after_reset => clog.fire[1] = 0

\* The NoteOn events of a sequence of events that no later NoteOff for the
\* same track and note follows.
Unpaired(events) ==
    {i \in 1..Len(events) :
        /\ events[i].kind = "note_on"
        /\ ~\E j \in (i + 1)..Len(events) :
              /\ events[j].kind = "note_off"
              /\ events[j].track_idx = events[i].track_idx
              /\ events[j].note = events[i].note}

\* C36: when the clock is stopped and the event queue is drained, every
\* NoteOn the sequencer enqueued has been followed by a NoteOff for the same
\* track and note.
C36_SequencedNotesReleased ==
    (~app.playing /\ queue = <<>>) => Unpaired(applied) = {}

\* C40: when the event queue is drained, the engine name recorded for track i
\* is the kind of the engine installed in voice i.
C40_TrackNamesEngine ==
    queue = <<>> =>
        \A i \in 0..(N_TRACKS - 1) :
            Pattern_track(app.pattern, i).engine_name = voices[i + 1].engine.kind

\* C37: while the arp mode is not off, the arp sequence is what a rebuild from
\* the notes held now, arp_octaves and arp_mode gives: the sorted layers in
\* the modes up and chord, reversed in the mode down, some order of the same
\* entries in the mode random; with no note held it is empty, so that
\* arp_tick triggers nothing.
C37_ArpSequenceCurrent ==
    (eng.kind = "subtractive" /\ eng.arp_mode # "off") =>
        /\ eng.arp_mode \in {"up", "chord"} =>
              IsLayers(eng.arp_notes, eng.held_notes, eng.arp_octaves)
        /\ eng.arp_mode = "down" =>
              IsLayers(Reversed(eng.arp_notes), eng.held_notes, eng.arp_octaves)
        /\ eng.arp_mode = "random" =>
              SameEntries(eng.arp_notes, eng.held_notes, eng.arp_octaves)

\* C38: after any start() and stop() calls, a start() that raised among them,
\* _running is True exactly when the engine holds a stream.
C38_RunningIffStream ==
    running <=> stream # "none"

====
